---- MODULE Spec2Model ----
(***************************************************************************)
(* A model of the MIDI note / chord file generators of midi-ableton-ujam.  *)
(*                                                                         *)
(* Strings are sequences of one-character strings, so that parsing         *)
(* (re.match, slicing, int) and formatting (f-strings) are computed and    *)
(* not assumed.  One behaviour is one invocation: Init draws the call and  *)
(* its arguments, the actions run it to its end.                           *)
(***************************************************************************)
EXTENDS Integers, Sequences, FiniteSets, TLC

VARIABLES
    run,            \* 1 in the first run of the program, 2 when it is run again
    first_files,    \* the files on disk when the first run had ended
    cmd,            \* the running call: function or script, and its arguments
    pc,             \* "ready", "loop", "done" (returned), "raised", or "caught"
    cwd,            \* process working directory (a path: sequence of names)
    original_dir,   \* the directory saved before os.chdir
    dirs,           \* directories that exist
    files,          \* files on disk: records [dir, name, track]
    queue,          \* the sorted, numbered entries of a batch run
    pos,            \* entries of queue already processed
    created_count,  \* the batch functions' counter of files created
    out,            \* console: sequence of notices
    exc,            \* the exception that left the call ("none" when none)
    stack,          \* the callers of the running function: sequence of frames
    save_error_at,  \* which save of a run raises OSError (0 when none does)
    saves           \* calls of mid.save in this run so far

vars == <<run, first_files, cmd, pc, cwd, original_dir, dirs, files, queue, pos, created_count, out, exc,
          stack, save_error_at, saves>>

----------------------------------------------------------------------------
(* Bounds of the model *)

\* octaves of the note names drawn as inputs range over -MaxOctave..MaxOctave
MaxOctave == 11
\* file numbers passed to the single-file functions are 1..MaxFileNumber
MaxFileNumber == 2
\* a drawn range spans at most this many octaves beyond its start octave
MaxRangeOctaves == 1
\* generate_key_chords is called with 1..MaxKeyOctaves octaves
MaxKeyOctaves == 6
\* drawn note tables hold at most this many entries
MaxTableLen == 3

----------------------------------------------------------------------------
(* Characters and strings *)

Letters == {"A", "B", "C", "D", "E", "F", "G"}
DigitChars == <<"0", "1", "2", "3", "4", "5", "6", "7", "8", "9">>
Digits == {DigitChars[k] : k \in 1..10}

DigitVal(c) == CHOOSE k \in 0..9 : DigitChars[k + 1] = c

\* str(n) for a natural number
RECURSIVE FormatNat(_)
FormatNat(n) ==
    IF n < 10 THEN <<DigitChars[n + 1]>>
    ELSE FormatNat(n \div 10) \o <<DigitChars[(n % 10) + 1]>>

\* str(n), as an f-string formats an integer
FormatInt(n) == IF n < 0 THEN <<"-">> \o FormatNat(0 - n) ELSE FormatNat(n)

\* f"{n:0wd}" for n >= 0: zero-padded to at least w characters
RECURSIVE ZeroPad(_, _)
ZeroPad(s, w) == IF Len(s) >= w THEN s ELSE ZeroPad(<<"0">> \o s, w)

\* mutant: the number without its leading zeros
FormatPaddedMutant(n, w) == FormatNat(n)

FormatPadded(n, w) == ZeroPad(FormatNat(n), w)

\* int(s) for s a non-empty run of decimal digits
RECURSIVE ParseNat(_)
ParseNat(s) ==
    IF Len(s) = 0 THEN 0
    ELSE 10 * ParseNat(SubSeq(s, 1, Len(s) - 1)) + DigitVal(s[Len(s)])

\* number of consecutive digit characters of s starting at position p
RECURSIVE DigitRun(_, _)
DigitRun(s, p) ==
    IF p <= Len(s) /\ s[p] \in Digits THEN 1 + DigitRun(s, p + 1) ELSE 0

\* str.replace(old, new) for single characters
ReplaceChar(s, old, new) == [k \in 1..Len(s) |-> IF s[k] = old THEN new ELSE s[k]]

\* str.strip() of blanks
Strip(s) ==
    LET kept == {k \in 1..Len(s) : s[k] # " "}
    IN  IF kept = {} THEN <<>>
        ELSE SubSeq(s, CHOOSE k \in kept : \A j \in kept : k <= j,
                       CHOOSE k \in kept : \A j \in kept : k >= j)

\* int(s) for a str: blanks around it are ignored, then an optional sign and
\* decimal digits, single underscores allowed between digits; anything else
\* is a ValueError (ok = FALSE)
ParseInt(s) ==
    LET t == Strip(s)
        signed == t # <<>> /\ t[1] \in {"+", "-"}
        body == IF signed THEN Tail(t) ELSE t
        d == SelectSeq(body, LAMBDA c : c # "_")
        well_formed ==
            /\ d # <<>>
            /\ \A k \in 1..Len(body) :
                   \/ body[k] \in Digits
                   \/ /\ body[k] = "_"
                      /\ 1 < k /\ k < Len(body)
                      /\ body[k - 1] \in Digits /\ body[k + 1] \in Digits
    IN  IF well_formed
        THEN [ok |-> TRUE,
              value |-> IF signed /\ t[1] = "-" THEN 0 - ParseNat(d) ELSE ParseNat(d)]
        ELSE [ok |-> FALSE, value |-> 0]

UpperChars == <<"A", "B", "C", "D", "E", "F", "G", "H", "I", "J", "K", "L", "M",
                "N", "O", "P", "Q", "R", "S", "T", "U", "V", "W", "X", "Y", "Z">>
LowerChars == <<"a", "b", "c", "d", "e", "f", "g", "h", "i", "j", "k", "l", "m",
                "n", "o", "p", "q", "r", "s", "t", "u", "v", "w", "x", "y", "z">>

LowerChar(c) ==
    IF \E k \in 1..26 : UpperChars[k] = c
    THEN LowerChars[CHOOSE k \in 1..26 : UpperChars[k] = c]
    ELSE c

\* str.lower()
Lower(s) == [k \in 1..Len(s) |-> LowerChar(s[k])]

\* the characters of the key names in code point order, for sorted()
CodeOrder == <<" ", "#">> \o UpperChars \o LowerChars

Ord(c) == CHOOSE k \in 1..Len(CodeOrder) : CodeOrder[k] = c

\* a < b for two str
StrLess(a, b) ==
    \E k \in 1..(Len(b)) :
        /\ \A j \in 1..(k - 1) : j <= Len(a) /\ a[j] = b[j]
        /\ \/ k = Len(a) + 1
           \/ k <= Len(a) /\ Ord(a[k]) < Ord(b[k])

----------------------------------------------------------------------------
(* Note names and the two octave conventions (create_notes.py) *)

NOTE_NAMES == << <<"C">>, <<"C", "#">>, <<"D">>, <<"D", "#">>, <<"E">>, <<"F">>,
                 <<"F", "#">>, <<"G">>, <<"G", "#">>, <<"A">>, <<"A", "#">>, <<"B">> >>

\* mutant: E# and B# are looked up as F and C
NoteIndexMutant(name) ==
    IF \E k \in 1..12 : NOTE_NAMES[k] = name
    THEN (CHOOSE k \in 1..12 : NOTE_NAMES[k] = name) - 1
    ELSE IF name = <<"E", "#">> THEN 5
    ELSE IF name = <<"B", "#">> THEN 0
    ELSE -1

\* list.index(name): the 0-based position, or -1 where Python raises ValueError
NoteIndex(name) ==
    IF \E k \in 1..12 : NOTE_NAMES[k] = name
    THEN (CHOOSE k \in 1..12 : NOTE_NAMES[k] = name) - 1
    ELSE -1

\* re.match(r'([A-G]#?)(-?\d+)', s): a match at the start of s, greedy; text
\* after the digits is not looked at
NoteMatch(s) ==
    LET p1  == IF Len(s) >= 2 /\ s[2] = "#" THEN 3 ELSE 2
        neg == Len(s) >= p1 /\ s[p1] = "-"
        p2  == IF neg THEN p1 + 1 ELSE p1
        nd  == DigitRun(s, p2)
    IN  IF Len(s) >= 1 /\ s[1] \in Letters /\ nd >= 1
        THEN [ok |-> TRUE,
              note_name |-> SubSeq(s, 1, p1 - 1),
              octave |-> (IF neg THEN -1 ELSE 1) * ParseNat(SubSeq(s, p2, p2 + nd - 1)),
              last |-> p2 + nd - 1]
        ELSE [ok |-> FALSE, note_name |-> <<>>, octave |-> 0, last |-> 0]

\* mutant: the Ableton formula with the standard offset
AbletonMidiMutant(octave, note_index) == (octave + 1) * 12 + note_index

\* Calculate Ableton MIDI number: C-2 = MIDI 0
AbletonMidi(octave, note_index) == (octave + 2) * 12 + note_index

\* Calculate standard MIDI number: C-1 = MIDI 0
StandardMidi(octave, note_index) == (octave + 1) * 12 + note_index

\* mutant: the upper limit off by one
OutOfRangeMutant(midi) == midi < 0 \/ midi > 128

\* Check if MIDI number is within valid range (0-127): the negation raises
OutOfRange(midi) == midi < 0 \/ midi > 127

\* mutant: one octave convention for both display names
DisplayNameMutant(midi, shift) ==
    NOTE_NAMES[(midi % 12) + 1] \o FormatInt((midi \div 12) - 1)

\* the display name of a MIDI number: pitch class, then octave = midi // 12 - shift
DisplayName(midi, shift) ==
    NOTE_NAMES[(midi % 12) + 1] \o FormatInt((midi \div 12) - shift)

----------------------------------------------------------------------------
(* MIDI events and tracks (the mido messages the code appends) *)

\* a channel message; meta fields are blank
Message(type, note, velocity, time) ==
    [type |-> type, note |-> note, velocity |-> velocity, time |-> time,
     name |-> <<>>, tempo |-> 0]

\* a meta message; note and velocity are -1 (a meta message has none)
MetaMessage(type, name, tempo, time) ==
    [type |-> type, note |-> -1, velocity |-> -1, time |-> time,
     name |-> name, tempo |-> tempo]

\* mido.bpm2tempo: microseconds per beat
bpm2tempo(bpm) == 60000000 \div bpm

\* track name, tempo and 4/4 time signature, as every generator writes them
Header(track_name, bpm) ==
    << MetaMessage("track_name", track_name, 0, 0),
       MetaMessage("set_tempo", <<>>, bpm2tempo(bpm), 0),
       MetaMessage("time_signature", <<>>, 0, 0) >>

EndOfTrack == << MetaMessage("end_of_track", <<>>, 0, 0) >>

\* one note: note_on at delta 0, note_off after duration_ticks
SingleNote(midi, duration_ticks) ==
    << Message("note_on", midi, 64, 0),
       Message("note_off", midi, 64, duration_ticks) >>

\* the track of a single-note file with metadata
NoteTrack(track_name, midi, duration_ticks, bpm) ==
    Header(track_name, bpm) \o SingleNote(midi, duration_ticks) \o EndOfTrack

Str_Note == <<"N", "o", "t", "e", " ">>
Str_mid == <<".", "m", "i", "d">>
Str_standard_mid == <<"_", "s", "t", "a", "n", "d", "a", "r", "d", ".", "m", "i", "d">>
Str_Standard == <<" ", "(", "S", "t", "a", "n", "d", "a", "r", "d", ")">>

\* the outcome of a call that raised: nothing is built, nothing is saved
Raised(what) ==
    [exc |-> what, filename |-> <<>>, track |-> <<>>, midi |-> -1, shown |-> <<>>,
     bars |-> <<>>]

\* a file ready to be saved, the pitch name reported for it, and the bar
\* count reported (none until the function prints one)
Built(filename, track, midi, shown) ==
    [exc |-> "none", filename |-> filename, track |-> track, midi |-> midi, shown |-> shown,
     bars |-> <<>>]

\* the digits of rem / den after the decimal point, at most left of them
RECURSIVE FractionDigits(_, _, _)
FractionDigits(rem, den, left) ==
    IF rem = 0 \/ left = 0 THEN <<>>
    ELSE <<DigitChars[((rem * 10) \div den) + 1]>>
             \o FractionDigits((rem * 10) % den, den, left - 1)

\* f"{a/b}" for a >= 0: the float quotient as str() prints it, '2.0' or
\* '0.25' (the shortest decimal, which for a quotient with a short expansion
\* is its exact expansion)
FormatQuotient(a, b) ==
    FormatNat(a \div b) \o <<".">>
        \o (IF a % b = 0 THEN <<"0">> ELSE FractionDigits(a % b, b, 16))

\* f"{a/b:.1f}" for a >= 0: the quotient rounded to one decimal
FormatQuotient1(a, b) ==
    LET tenths == (20 * a + b) \div (2 * b)
    IN  FormatNat(tenths \div 10) \o <<".", DigitChars[(tenths % 10) + 1]>>

\* create_note_midi_ableton_final up to mid.save: the exception or the file
CreateNoteAbleton(ableton_display_name, file_number, duration_ticks, bpm) ==
    LET m == NoteMatch(ableton_display_name)
        note_index == NoteIndex(m.note_name)
        ableton_midi == AbletonMidi(m.octave, note_index)
    IN  IF ~m.ok THEN Raised("ValueError: Invalid note name format")
        ELSE IF note_index = -1 THEN Raised("ValueError: Invalid note name")
        ELSE IF OutOfRange(ableton_midi)
             THEN Raised("ValueError: outside valid range")
        ELSE [Built(FormatPadded(file_number, 2) \o <<" ">> \o ableton_display_name \o Str_mid,
                    NoteTrack(Str_Note \o ableton_display_name, ableton_midi, duration_ticks,
                              bpm),
                    ableton_midi,
                    DisplayName(ableton_midi, 1))
              EXCEPT !.bars = FormatQuotient(duration_ticks, 1920)]

\* create_note_midi_standard up to mid.save
CreateNoteStandard(standard_display_name, file_number, duration_ticks, bpm) ==
    LET m == NoteMatch(standard_display_name)
        note_index == NoteIndex(m.note_name)
        standard_midi == StandardMidi(m.octave, note_index)
    IN  IF ~m.ok THEN Raised("ValueError: Invalid note name format")
        ELSE IF note_index = -1 THEN Raised("ValueError: Invalid note name")
        ELSE IF OutOfRange(standard_midi)
             THEN Raised("ValueError: outside valid range")
        ELSE [Built(FormatPadded(file_number, 2) \o <<" ">> \o standard_display_name
                        \o Str_standard_mid,
                    NoteTrack(Str_Note \o standard_display_name \o Str_Standard,
                              standard_midi, duration_ticks, bpm),
                    standard_midi,
                    DisplayName(standard_midi, 2))
              EXCEPT !.bars = FormatQuotient(duration_ticks, 1920)]

----------------------------------------------------------------------------
(* Chord triads (create_chords.py) *)

Str_Major == <<"M", "a", "j", "o", "r">>
Str_Minor == <<"M", "i", "n", "o", "r">>
Str_Diminished == <<"D", "i", "m", "i", "n", "i", "s", "h", "e", "d">>
Str_Augmented == <<"A", "u", "g", "m", "e", "n", "t", "e", "d">>

\* Define triad types in the order they should appear
triad_types == <<Str_Major, Str_Minor, Str_Diminished, Str_Augmented>>

\* mutant: the diminished triad with a perfect fifth
TriadOffsetsMutant(triad_type) ==
    LET t == Lower(triad_type)
    IN  IF t = Lower(Str_Major) THEN <<4, 7>>
        ELSE IF t = Lower(Str_Minor) THEN <<3, 7>>
        ELSE IF t = Lower(Str_Diminished) THEN <<3, 7>>
        ELSE IF t = Lower(Str_Augmented) THEN <<4, 8>>
        ELSE <<>>

\* the semitone offsets <<third, fifth>> of a triad type, <<>> for an unknown
\* type (the final else branch raises ValueError)
TriadOffsets(triad_type) ==
    LET t == Lower(triad_type)
    IN  IF t = Lower(Str_Major) THEN <<4, 7>>
        ELSE IF t = Lower(Str_Minor) THEN <<3, 7>>
        ELSE IF t = Lower(Str_Diminished) THEN <<3, 6>>
        ELSE IF t = Lower(Str_Augmented) THEN <<4, 8>>
        ELSE <<>>

\* Convert MIDI note number to Ableton UI notation
midi_to_ableton_notation(midi_note) == DisplayName(midi_note, 1)

\* Convert MIDI note number to standard notation
midi_to_standard_notation(midi_note) == DisplayName(midi_note, 2)

\* the three simultaneous notes of a chord: note-ons at delta 0, the first
\* note-off after duration_ticks, the other two at delta 0
ChordNotes(root_midi, third_midi, fifth_midi, duration_ticks) ==
    << Message("note_on", root_midi, 64, 0),
       Message("note_on", third_midi, 60, 0),
       Message("note_on", fifth_midi, 56, 0),
       Message("note_off", root_midi, 64, duration_ticks),
       Message("note_off", third_midi, 60, 0),
       Message("note_off", fifth_midi, 56, 0) >>

\* mutant: only the root is checked
ChordInRangeMutant(chord_notes) == ~(chord_notes[1] < 0 \/ chord_notes[1] > 127)

\* Check if all MIDI numbers are within valid range (0-127)
ChordInRange(chord_notes) ==
    \A k \in 1..Len(chord_notes) : ~(chord_notes[k] < 0 \/ chord_notes[k] > 127)

\* create_chord_triad_midi up to mid.save: the exception or the file
CreateChordTriad(root_note, triad_type, file_number, duration_ticks, bpm) ==
    LET m == NoteMatch(root_note)
        root_index == NoteIndex(m.note_name)
        root_midi == AbletonMidi(m.octave, root_index)
        offs == TriadOffsets(triad_type)
        third_midi == root_midi + offs[1]
        fifth_midi == root_midi + offs[2]
    IN  IF ~m.ok THEN Raised("ValueError: Invalid note name format")
        ELSE IF root_index = -1 THEN Raised("ValueError: Invalid note name")
        ELSE IF offs = <<>> THEN Raised("ValueError: Invalid triad type")
        ELSE IF ~ChordInRange(<<root_midi, third_midi, fifth_midi>>)
             THEN Raised("ValueError: outside valid range")
        ELSE [Built(FormatPadded(file_number, 3) \o <<" ">> \o root_note \o <<" ">>
                        \o triad_type \o Str_mid,
                    Header(root_note \o <<" ">> \o triad_type, bpm)
                        \o ChordNotes(root_midi, third_midi, fifth_midi, duration_ticks)
                        \o EndOfTrack,
                    root_midi,
                    midi_to_ableton_notation(root_midi))
              EXCEPT !.bars = FormatQuotient1(duration_ticks, 480)]

----------------------------------------------------------------------------
(* The file system and the console *)

\* mutant: a name that is taken is not overwritten, a copy is added
SaveMutant(fs, dir, filename, track) ==
    IF \E f \in fs : f.dir = dir /\ f.name = filename
    THEN fs \cup {[dir |-> dir, name |-> filename \o <<" ", "c", "o", "p", "y">>,
                   track |-> track]}
    ELSE fs \cup {[dir |-> dir, name |-> filename, track |-> track]}

\* mid.save(filename) in the working directory: creates or overwrites
Save(fs, dir, filename, track) ==
    {f \in fs : ~(f.dir = dir /\ f.name = filename)}
        \cup {[dir |-> dir, name |-> filename, track |-> track]}

\* a console line: what it reports and about which file or entry
Notice(kind, subject, shown) ==
    [kind |-> kind, subject |-> subject, shown |-> shown, bars |-> <<>>]

\* the lines printed after mid.save: the file, the pitch name, and the
\* duration in bars
Created(r) == [Notice("Created", r.filename, r.shown) EXCEPT !.bars = r.bars]

----------------------------------------------------------------------------
(* Batches: enumeration, sorting and numbering of the entries *)

\* a batch entry: its file number, the note name passed on, the triad type
\* or track name that goes with it, and the MIDI number computed for sorting
Entry(file_number, display_name, label, midi) ==
    [file_number |-> file_number, display_name |-> display_name,
     label |-> label, midi |-> midi]

\* the notes of one octave from pitch class lo up to, not including, hi
\* (the inner for loop; range(lo, hi) is empty when hi <= lo)
OctaveNotes(octave, lo, hi, offset) ==
    [j \in 1..(IF hi > lo THEN hi - lo ELSE 0) |->
        Entry(0, NOTE_NAMES[lo + j] \o FormatInt(octave), <<>>,
              (octave + offset) * 12 + (lo + j - 1))]

\* mutant: the end note is left out
RECURSIVE RangeNotesMutant(_, _, _, _, _, _)
RangeNotesMutant(octave, start_octave, start_note_index, end_octave, end_note_index, offset) ==
    IF octave > end_octave THEN <<>>
    ELSE OctaveNotes(octave,
                     IF octave = start_octave THEN start_note_index ELSE 0,
                     IF octave = end_octave THEN end_note_index ELSE 12,
                     offset)
         \o RangeNotesMutant(octave + 1, start_octave, start_note_index,
                             end_octave, end_note_index, offset)

\* Generate all notes in the range: the outer for loop from octave on
RECURSIVE RangeNotes(_, _, _, _, _, _)
RangeNotes(octave, start_octave, start_note_index, end_octave, end_note_index, offset) ==
    IF octave > end_octave THEN <<>>
    ELSE OctaveNotes(octave,
                     IF octave = start_octave THEN start_note_index ELSE 0,
                     IF octave = end_octave THEN end_note_index + 1 ELSE 12,
                     offset)
         \o RangeNotes(octave + 1, start_octave, start_note_index,
                       end_octave, end_note_index, offset)

\* mutant: the list is left in table order
SortByMidiMutant(entries) == entries

\* list.sort(key=midi): ascending and stable; an entry's place is the
\* number of entries with a smaller key, or with the same key ahead of it
SortByMidi(entries) ==
    LET n == Len(entries)
        place == [k \in 1..n |->
                     1 + Cardinality({j \in 1..n :
                                         \/ entries[j].midi < entries[k].midi
                                         \/ (entries[j].midi = entries[k].midi /\ j < k)})]
    IN  [p \in 1..n |-> entries[CHOOSE k \in 1..n : place[k] = p]]

\* mutant: enumerate from 0
EnumerateMutant(entries) ==
    [k \in 1..Len(entries) |->
        Entry(k - 1, entries[k].display_name, entries[k].label, entries[k].midi)]

\* enumerate(entries, start=1): the file number is the position in the list
Enumerate(entries) ==
    [k \in 1..Len(entries) |->
        Entry(k, entries[k].display_name, entries[k].label, entries[k].midi)]

\* mutant: a start or end that does not match is read as C0
ParseRangeMutant(start_note, end_note) ==
    LET start_match == NoteMatch(start_note)
        end_match == NoteMatch(end_note)
    IN  [exc |-> "none",
         start_octave |-> start_match.octave,
         start_note_index |-> IF NoteIndex(start_match.note_name) = -1 THEN 0
                              ELSE NoteIndex(start_match.note_name),
         end_octave |-> end_match.octave,
         end_note_index |-> IF NoteIndex(end_match.note_name) = -1 THEN 0
                            ELSE NoteIndex(end_match.note_name)]

\* the parsed start and end of a range, or the exception that aborts the run:
\* a failed match raises, and so does .index() of a name not in the table
ParseRange(start_note, end_note) ==
    LET start_match == NoteMatch(start_note)
        end_match == NoteMatch(end_note)
    IN  IF ~start_match.ok \/ ~end_match.ok
        THEN [exc |-> "ValueError: Invalid start or end note format",
              start_octave |-> 0, start_note_index |-> 0,
              end_octave |-> 0, end_note_index |-> 0]
        ELSE IF NoteIndex(start_match.note_name) = -1 \/ NoteIndex(end_match.note_name) = -1
        THEN [exc |-> "ValueError: is not in list",
              start_octave |-> 0, start_note_index |-> 0,
              end_octave |-> 0, end_note_index |-> 0]
        ELSE [exc |-> "none",
              start_octave |-> start_match.octave,
              start_note_index |-> NoteIndex(start_match.note_name),
              end_octave |-> end_match.octave,
              end_note_index |-> NoteIndex(end_match.note_name)]

\* mutant: only the notes in 0..127 are counted when the list is numbered
RangeQueueMutant(p, offset) ==
    LET sorted == SortByMidi(RangeNotes(p.start_octave, p.start_octave, p.start_note_index,
                                        p.end_octave, p.end_note_index, offset))
    IN  [k \in 1..Len(sorted) |->
            Entry(Cardinality({j \in 1..k : sorted[j].midi \in 0..127}),
                  sorted[k].display_name, sorted[k].label, sorted[k].midi)]

\* all_notes of generate_ableton_range (offset 2) and generate_standard_range
\* (offset 1): enumerated, sorted by MIDI number, numbered from 1
RangeQueue(p, offset) ==
    Enumerate(SortByMidi(RangeNotes(p.start_octave, p.start_octave, p.start_note_index,
                                    p.end_octave, p.end_note_index, offset)))

\* notes_to_generate of generate_middle_c_range: octaves 2, 3, 4
MiddleCQueue ==
    Enumerate(SortByMidi(OctaveNotes(2, 0, 12, 2) \o OctaveNotes(3, 0, 12, 2)
                            \o OctaveNotes(4, 0, 12, 2)))

\* mido.Message(note=...): a data byte outside 0..127 raises ValueError
MessageRaises(note) == note < 0 \/ note > 127

\* the fallback of generate_ableton_range without track names: a bare
\* note_on / note_off pair, no metadata, no end marker
CreateNoteBare(display_name, midi_num, file_number, duration_ticks) ==
    IF MessageRaises(midi_num) THEN Raised("ValueError: data byte must be in range 0..127")
    ELSE Built(FormatPadded(file_number, 2) \o <<" ">> \o display_name \o Str_mid,
               SingleNote(midi_num, duration_ticks), midi_num, <<>>)

\* the loop body of generate_middle_c_range: the note is built in place
CreateNoteMiddleC(display_name, midi_num, file_number, duration_ticks) ==
    IF MessageRaises(midi_num) THEN Raised("ValueError: data byte must be in range 0..127")
    ELSE Built(FormatPadded(file_number, 2) \o <<" ">> \o display_name \o Str_mid,
               NoteTrack(Str_Note \o display_name, midi_num, duration_ticks, 120),
               midi_num, DisplayName(midi_num, 1))

Dir_ableton_sequential == <<<<"m", "i", "d", "i", "_", "f", "i", "l", "e", "s", "_", "a", "b", "l", "e", "t", "o", "n", "_", "s", "e", "q", "u", "e", "n", "t", "i", "a", "l">>>>
Dir_standard_sequential == <<<<"m", "i", "d", "i", "_", "f", "i", "l", "e", "s", "_", "s", "t", "a", "n", "d", "a", "r", "d", "_", "s", "e", "q", "u", "e", "n", "t", "i", "a", "l">>>>
Dir_middle_c_range == <<<<"m", "i", "d", "d", "l", "e", "_", "c", "_", "r", "a", "n", "g", "e", "_", "s", "e", "q", "u", "e", "n", "t", "i", "a", "l">>>>

----------------------------------------------------------------------------
(* Chord batches (create_chords.py) *)

Dir_ableton_triads == <<"m", "i", "d", "i", "_", "f", "i", "l", "e", "s", "_", "a", "b", "l", "e", "t", "o", "n", "_", "t", "r", "i", "a", "d", "s">>
Str_range_ == <<"r", "a", "n", "g", "e", "_">>
Str__to_ == <<"_", "t", "o", "_">>
Str_key_ == <<"k", "e", "y", "_">>
Str_sharp == <<"s", "h", "a", "r", "p">>

\* str.replace(old, new) for a single character old and a string new
RECURSIVE ReplaceWith(_, _, _)
ReplaceWith(s, old, new) ==
    IF s = <<>> THEN <<>>
    ELSE (IF s[1] = old THEN new ELSE <<s[1]>>) \o ReplaceWith(Tail(s), old, new)

\* output_dir of generate_chord_triads_range
RangeDir(start_note, end_note) ==
    << Dir_ableton_triads,
       ReplaceWith(Str_range_ \o start_note \o Str__to_ \o end_note, "#", Str_sharp) >>

\* output_dir of generate_key_chords
KeyDir(key_signature) ==
    << Dir_ableton_triads,
       Str_key_ \o ReplaceWith(ReplaceChar(key_signature, " ", "_"), "#", Str_sharp) >>

\* mutant: the order is triad type first and then root
AllChordsMutant(all_root_notes, file_counter) ==
    LET n == Len(all_root_notes)
    IN  [k \in 1..(4 * n) |->
            Entry(file_counter + k - 1, all_root_notes[((k - 1) % n) + 1].display_name,
                  triad_types[((k - 1) \div n) + 1], all_root_notes[((k - 1) % n) + 1].midi)]

\* Generate all chord combinations (root x type), numbered by file_counter
AllChords(all_root_notes, file_counter) ==
    [k \in 1..(4 * Len(all_root_notes)) |->
        Entry(file_counter + k - 1, all_root_notes[((k - 1) \div 4) + 1].display_name,
              triad_types[((k - 1) % 4) + 1], all_root_notes[((k - 1) \div 4) + 1].midi)]

\* all_chords of generate_chord_triads_range
ChordRangeQueue(p) ==
    AllChords(SortByMidi(RangeNotes(p.start_octave, p.start_octave, p.start_note_index,
                                    p.end_octave, p.end_note_index, 2)), 1)

\* KEY_SIGNATURES, in the order of the dict
KEY_SIGNATURES ==
    << [key |-> <<"C", " ", "M", "a", "j", "o", "r">>, tonality |-> "major",
        chords |-> << <<"C", " ", "M", "a", "j", "o", "r">>,
                      <<"D", " ", "M", "i", "n", "o", "r">>,
                      <<"E", " ", "M", "i", "n", "o", "r">>,
                      <<"F", " ", "M", "a", "j", "o", "r">>,
                      <<"G", " ", "M", "a", "j", "o", "r">>,
                      <<"A", " ", "M", "i", "n", "o", "r">>,
                      <<"B", " ", "D", "i", "m", "i", "n", "i", "s", "h", "e", "d">> >>],
       [key |-> <<"C", "#", " ", "M", "a", "j", "o", "r">>, tonality |-> "major",
        chords |-> << <<"C", "#", " ", "M", "a", "j", "o", "r">>,
                      <<"D", "#", " ", "M", "i", "n", "o", "r">>,
                      <<"F", " ", "M", "i", "n", "o", "r">>,
                      <<"F", "#", " ", "M", "a", "j", "o", "r">>,
                      <<"G", "#", " ", "M", "a", "j", "o", "r">>,
                      <<"A", "#", " ", "M", "i", "n", "o", "r">>,
                      <<"C", " ", "D", "i", "m", "i", "n", "i", "s", "h", "e", "d">> >>],
       [key |-> <<"D", " ", "M", "a", "j", "o", "r">>, tonality |-> "major",
        chords |-> << <<"D", " ", "M", "a", "j", "o", "r">>,
                      <<"E", " ", "M", "i", "n", "o", "r">>,
                      <<"F", "#", " ", "M", "i", "n", "o", "r">>,
                      <<"G", " ", "M", "a", "j", "o", "r">>,
                      <<"A", " ", "M", "a", "j", "o", "r">>,
                      <<"B", " ", "M", "i", "n", "o", "r">>,
                      <<"C", "#", " ", "D", "i", "m", "i", "n", "i", "s", "h", "e", "d">> >>],
       [key |-> <<"D", "#", " ", "M", "a", "j", "o", "r">>, tonality |-> "major",
        chords |-> << <<"D", "#", " ", "M", "a", "j", "o", "r">>,
                      <<"F", " ", "M", "i", "n", "o", "r">>,
                      <<"G", " ", "M", "i", "n", "o", "r">>,
                      <<"G", "#", " ", "M", "a", "j", "o", "r">>,
                      <<"A", "#", " ", "M", "a", "j", "o", "r">>,
                      <<"C", " ", "M", "i", "n", "o", "r">>,
                      <<"D", " ", "D", "i", "m", "i", "n", "i", "s", "h", "e", "d">> >>],
       [key |-> <<"E", " ", "M", "a", "j", "o", "r">>, tonality |-> "major",
        chords |-> << <<"E", " ", "M", "a", "j", "o", "r">>,
                      <<"F", "#", " ", "M", "i", "n", "o", "r">>,
                      <<"G", "#", " ", "M", "i", "n", "o", "r">>,
                      <<"A", " ", "M", "a", "j", "o", "r">>,
                      <<"B", " ", "M", "a", "j", "o", "r">>,
                      <<"C", "#", " ", "M", "i", "n", "o", "r">>,
                      <<"D", "#", " ", "D", "i", "m", "i", "n", "i", "s", "h", "e", "d">> >>],
       [key |-> <<"F", " ", "M", "a", "j", "o", "r">>, tonality |-> "major",
        chords |-> << <<"F", " ", "M", "a", "j", "o", "r">>,
                      <<"G", " ", "M", "i", "n", "o", "r">>,
                      <<"A", " ", "M", "i", "n", "o", "r">>,
                      <<"A", "#", " ", "M", "a", "j", "o", "r">>,
                      <<"C", " ", "M", "a", "j", "o", "r">>,
                      <<"D", " ", "M", "i", "n", "o", "r">>,
                      <<"E", " ", "D", "i", "m", "i", "n", "i", "s", "h", "e", "d">> >>],
       [key |-> <<"F", "#", " ", "M", "a", "j", "o", "r">>, tonality |-> "major",
        chords |-> << <<"F", "#", " ", "M", "a", "j", "o", "r">>,
                      <<"G", "#", " ", "M", "i", "n", "o", "r">>,
                      <<"A", "#", " ", "M", "i", "n", "o", "r">>,
                      <<"B", " ", "M", "a", "j", "o", "r">>,
                      <<"C", "#", " ", "M", "a", "j", "o", "r">>,
                      <<"D", "#", " ", "M", "i", "n", "o", "r">>,
                      <<"F", " ", "D", "i", "m", "i", "n", "i", "s", "h", "e", "d">> >>],
       [key |-> <<"G", " ", "M", "a", "j", "o", "r">>, tonality |-> "major",
        chords |-> << <<"G", " ", "M", "a", "j", "o", "r">>,
                      <<"A", " ", "M", "i", "n", "o", "r">>,
                      <<"B", " ", "M", "i", "n", "o", "r">>,
                      <<"C", " ", "M", "a", "j", "o", "r">>,
                      <<"D", " ", "M", "a", "j", "o", "r">>,
                      <<"E", " ", "M", "i", "n", "o", "r">>,
                      <<"F", "#", " ", "D", "i", "m", "i", "n", "i", "s", "h", "e", "d">> >>],
       [key |-> <<"G", "#", " ", "M", "a", "j", "o", "r">>, tonality |-> "major",
        chords |-> << <<"G", "#", " ", "M", "a", "j", "o", "r">>,
                      <<"A", "#", " ", "M", "i", "n", "o", "r">>,
                      <<"C", " ", "M", "i", "n", "o", "r">>,
                      <<"C", "#", " ", "M", "a", "j", "o", "r">>,
                      <<"D", "#", " ", "M", "a", "j", "o", "r">>,
                      <<"F", " ", "M", "i", "n", "o", "r">>,
                      <<"G", " ", "D", "i", "m", "i", "n", "i", "s", "h", "e", "d">> >>],
       [key |-> <<"A", " ", "M", "a", "j", "o", "r">>, tonality |-> "major",
        chords |-> << <<"A", " ", "M", "a", "j", "o", "r">>,
                      <<"B", " ", "M", "i", "n", "o", "r">>,
                      <<"C", "#", " ", "M", "i", "n", "o", "r">>,
                      <<"D", " ", "M", "a", "j", "o", "r">>,
                      <<"E", " ", "M", "a", "j", "o", "r">>,
                      <<"F", "#", " ", "M", "i", "n", "o", "r">>,
                      <<"G", "#", " ", "D", "i", "m", "i", "n", "i", "s", "h", "e", "d">> >>],
       [key |-> <<"A", "#", " ", "M", "a", "j", "o", "r">>, tonality |-> "major",
        chords |-> << <<"A", "#", " ", "M", "a", "j", "o", "r">>,
                      <<"C", " ", "M", "i", "n", "o", "r">>,
                      <<"D", " ", "M", "i", "n", "o", "r">>,
                      <<"D", "#", " ", "M", "a", "j", "o", "r">>,
                      <<"F", " ", "M", "a", "j", "o", "r">>,
                      <<"G", " ", "M", "i", "n", "o", "r">>,
                      <<"A", " ", "D", "i", "m", "i", "n", "i", "s", "h", "e", "d">> >>],
       [key |-> <<"B", " ", "M", "a", "j", "o", "r">>, tonality |-> "major",
        chords |-> << <<"B", " ", "M", "a", "j", "o", "r">>,
                      <<"C", "#", " ", "M", "i", "n", "o", "r">>,
                      <<"D", "#", " ", "M", "i", "n", "o", "r">>,
                      <<"E", " ", "M", "a", "j", "o", "r">>,
                      <<"F", "#", " ", "M", "a", "j", "o", "r">>,
                      <<"G", "#", " ", "M", "i", "n", "o", "r">>,
                      <<"A", "#", " ", "D", "i", "m", "i", "n", "i", "s", "h", "e", "d">> >>],
       [key |-> <<"C", " ", "M", "i", "n", "o", "r">>, tonality |-> "minor",
        chords |-> << <<"C", " ", "M", "i", "n", "o", "r">>,
                      <<"D", " ", "D", "i", "m", "i", "n", "i", "s", "h", "e", "d">>,
                      <<"E", "b", " ", "M", "a", "j", "o", "r">>,
                      <<"F", " ", "M", "i", "n", "o", "r">>,
                      <<"G", " ", "M", "i", "n", "o", "r">>,
                      <<"A", "b", " ", "M", "a", "j", "o", "r">>,
                      <<"B", "b", " ", "M", "a", "j", "o", "r">> >>],
       [key |-> <<"C", "#", " ", "M", "i", "n", "o", "r">>, tonality |-> "minor",
        chords |-> << <<"C", "#", " ", "M", "i", "n", "o", "r">>,
                      <<"D", "#", " ", "D", "i", "m", "i", "n", "i", "s", "h", "e", "d">>,
                      <<"E", " ", "M", "a", "j", "o", "r">>,
                      <<"F", "#", " ", "M", "i", "n", "o", "r">>,
                      <<"G", "#", " ", "M", "i", "n", "o", "r">>,
                      <<"A", " ", "M", "a", "j", "o", "r">>,
                      <<"B", " ", "M", "a", "j", "o", "r">> >>],
       [key |-> <<"D", " ", "M", "i", "n", "o", "r">>, tonality |-> "minor",
        chords |-> << <<"D", " ", "M", "i", "n", "o", "r">>,
                      <<"E", " ", "D", "i", "m", "i", "n", "i", "s", "h", "e", "d">>,
                      <<"F", " ", "M", "a", "j", "o", "r">>,
                      <<"G", " ", "M", "i", "n", "o", "r">>,
                      <<"A", " ", "M", "i", "n", "o", "r">>,
                      <<"B", "b", " ", "M", "a", "j", "o", "r">>,
                      <<"C", " ", "M", "a", "j", "o", "r">> >>],
       [key |-> <<"D", "#", " ", "M", "i", "n", "o", "r">>, tonality |-> "minor",
        chords |-> << <<"D", "#", " ", "M", "i", "n", "o", "r">>,
                      <<"F", " ", "D", "i", "m", "i", "n", "i", "s", "h", "e", "d">>,
                      <<"G", "b", " ", "M", "a", "j", "o", "r">>,
                      <<"G", "#", " ", "M", "i", "n", "o", "r">>,
                      <<"A", "#", " ", "M", "i", "n", "o", "r">>,
                      <<"B", " ", "M", "a", "j", "o", "r">>,
                      <<"C", "#", " ", "M", "a", "j", "o", "r">> >>],
       [key |-> <<"E", " ", "M", "i", "n", "o", "r">>, tonality |-> "minor",
        chords |-> << <<"E", " ", "M", "i", "n", "o", "r">>,
                      <<"F", "#", " ", "D", "i", "m", "i", "n", "i", "s", "h", "e", "d">>,
                      <<"G", " ", "M", "a", "j", "o", "r">>,
                      <<"A", " ", "M", "i", "n", "o", "r">>,
                      <<"B", " ", "M", "i", "n", "o", "r">>,
                      <<"C", " ", "M", "a", "j", "o", "r">>,
                      <<"D", " ", "M", "a", "j", "o", "r">> >>],
       [key |-> <<"F", " ", "M", "i", "n", "o", "r">>, tonality |-> "minor",
        chords |-> << <<"F", " ", "M", "i", "n", "o", "r">>,
                      <<"G", " ", "D", "i", "m", "i", "n", "i", "s", "h", "e", "d">>,
                      <<"A", "b", " ", "M", "a", "j", "o", "r">>,
                      <<"B", "b", " ", "M", "i", "n", "o", "r">>,
                      <<"C", " ", "M", "i", "n", "o", "r">>,
                      <<"D", "b", " ", "M", "a", "j", "o", "r">>,
                      <<"E", "b", " ", "M", "a", "j", "o", "r">> >>],
       [key |-> <<"F", "#", " ", "M", "i", "n", "o", "r">>, tonality |-> "minor",
        chords |-> << <<"F", "#", " ", "M", "i", "n", "o", "r">>,
                      <<"G", "#", " ", "D", "i", "m", "i", "n", "i", "s", "h", "e", "d">>,
                      <<"A", " ", "M", "a", "j", "o", "r">>,
                      <<"B", " ", "M", "i", "n", "o", "r">>,
                      <<"C", "#", " ", "M", "i", "n", "o", "r">>,
                      <<"D", " ", "M", "a", "j", "o", "r">>,
                      <<"E", " ", "M", "a", "j", "o", "r">> >>],
       [key |-> <<"G", " ", "M", "i", "n", "o", "r">>, tonality |-> "minor",
        chords |-> << <<"G", " ", "M", "i", "n", "o", "r">>,
                      <<"A", " ", "D", "i", "m", "i", "n", "i", "s", "h", "e", "d">>,
                      <<"B", "b", " ", "M", "a", "j", "o", "r">>,
                      <<"C", " ", "M", "i", "n", "o", "r">>,
                      <<"D", " ", "M", "i", "n", "o", "r">>,
                      <<"E", "b", " ", "M", "a", "j", "o", "r">>,
                      <<"F", " ", "M", "a", "j", "o", "r">> >>],
       [key |-> <<"G", "#", " ", "M", "i", "n", "o", "r">>, tonality |-> "minor",
        chords |-> << <<"G", "#", " ", "M", "i", "n", "o", "r">>,
                      <<"A", "#", " ", "D", "i", "m", "i", "n", "i", "s", "h", "e", "d">>,
                      <<"B", " ", "M", "a", "j", "o", "r">>,
                      <<"C", "#", " ", "M", "i", "n", "o", "r">>,
                      <<"D", "#", " ", "M", "i", "n", "o", "r">>,
                      <<"E", " ", "M", "a", "j", "o", "r">>,
                      <<"F", "#", " ", "M", "a", "j", "o", "r">> >>],
       [key |-> <<"A", " ", "M", "i", "n", "o", "r">>, tonality |-> "minor",
        chords |-> << <<"A", " ", "M", "i", "n", "o", "r">>,
                      <<"B", " ", "D", "i", "m", "i", "n", "i", "s", "h", "e", "d">>,
                      <<"C", " ", "M", "a", "j", "o", "r">>,
                      <<"D", " ", "M", "i", "n", "o", "r">>,
                      <<"E", " ", "M", "i", "n", "o", "r">>,
                      <<"F", " ", "M", "a", "j", "o", "r">>,
                      <<"G", " ", "M", "a", "j", "o", "r">> >>],
       [key |-> <<"A", "#", " ", "M", "i", "n", "o", "r">>, tonality |-> "minor",
        chords |-> << <<"A", "#", " ", "M", "i", "n", "o", "r">>,
                      <<"C", " ", "D", "i", "m", "i", "n", "i", "s", "h", "e", "d">>,
                      <<"D", "b", " ", "M", "a", "j", "o", "r">>,
                      <<"E", "b", " ", "M", "i", "n", "o", "r">>,
                      <<"F", " ", "M", "i", "n", "o", "r">>,
                      <<"G", "b", " ", "M", "a", "j", "o", "r">>,
                      <<"A", "b", " ", "M", "a", "j", "o", "r">> >>],
       [key |-> <<"B", " ", "M", "i", "n", "o", "r">>, tonality |-> "minor",
        chords |-> << <<"B", " ", "M", "i", "n", "o", "r">>,
                      <<"C", "#", " ", "D", "i", "m", "i", "n", "i", "s", "h", "e", "d">>,
                      <<"D", " ", "M", "a", "j", "o", "r">>,
                      <<"E", " ", "M", "i", "n", "o", "r">>,
                      <<"F", "#", " ", "M", "i", "n", "o", "r">>,
                      <<"G", " ", "M", "a", "j", "o", "r">>,
                      <<"A", " ", "M", "a", "j", "o", "r">> >>] >>

\* mutant: every name passes for a key
KnownKeyMutant(key_signature) == TRUE

\* key_signature in KEY_SIGNATURES
KnownKey(key_signature) ==
    \E k \in 1..Len(KEY_SIGNATURES) : KEY_SIGNATURES[k].key = key_signature

\* mutant: the chords of the key that follows in the dict
KeyDataMutant(key_signature) ==
    IF \E k \in 1..Len(KEY_SIGNATURES) : KEY_SIGNATURES[k].key = key_signature
    THEN KEY_SIGNATURES[((CHOOSE k \in 1..Len(KEY_SIGNATURES) :
                              KEY_SIGNATURES[k].key = key_signature) % Len(KEY_SIGNATURES)) + 1]
    ELSE [key |-> <<>>, tonality |-> "", chords |-> <<>>]

\* KEY_SIGNATURES[key_signature], or a record without chords when the key
\* is not in the dict
KeyData(key_signature) ==
    IF \E k \in 1..Len(KEY_SIGNATURES) : KEY_SIGNATURES[k].key = key_signature
    THEN KEY_SIGNATURES[CHOOSE k \in 1..Len(KEY_SIGNATURES) :
                            KEY_SIGNATURES[k].key = key_signature]
    ELSE [key |-> <<>>, tonality |-> "", chords |-> <<>>]

StartsWith(s, prefix) == Len(s) >= Len(prefix) /\ SubSeq(s, 1, Len(prefix)) = prefix

\* position of the first space of s, 0 when there is none
FirstSpace(s) ==
    IF \E k \in 1..Len(s) : s[k] = " "
    THEN CHOOSE k \in 1..Len(s) : s[k] = " " /\ \A j \in 1..(k - 1) : s[j] # " "
    ELSE 0

\* mutant: every chord is split at its first space, flat roots are kept
ParseChordMutant(chord) ==
    [root_note_name |-> SubSeq(chord, 1, FirstSpace(chord) - 1),
     triad_type |-> SubSeq(chord, FirstSpace(chord) + 1, Len(chord))]

\* Parse chord notation: flat roots are renamed to their sharp equivalents,
\* other chords are split at the first space (every chord of KEY_SIGNATURES
\* has one)
ParseChord(chord) ==
    IF StartsWith(chord, <<"A", "b">>)
    THEN [root_note_name |-> <<"G", "#">>, triad_type |-> SubSeq(chord, 4, Len(chord))]
    ELSE IF StartsWith(chord, <<"B", "b">>)
    THEN [root_note_name |-> <<"A", "#">>, triad_type |-> SubSeq(chord, 4, Len(chord))]
    ELSE IF StartsWith(chord, <<"D", "b">>)
    THEN [root_note_name |-> <<"C", "#">>, triad_type |-> SubSeq(chord, 4, Len(chord))]
    ELSE IF StartsWith(chord, <<"E", "b">>)
    THEN [root_note_name |-> <<"D", "#">>, triad_type |-> SubSeq(chord, 4, Len(chord))]
    ELSE IF StartsWith(chord, <<"G", "b">>)
    THEN [root_note_name |-> <<"F", "#">>, triad_type |-> SubSeq(chord, 4, Len(chord))]
    ELSE [root_note_name |-> SubSeq(chord, 1, FirstSpace(chord) - 1),
          triad_type |-> SubSeq(chord, FirstSpace(chord) + 1, Len(chord))]

\* mutant: the chords of one octave numbered from the last to the first
OctaveChordsMutant(chords, octave, file_counter) ==
    [j \in 1..Len(chords) |->
        LET c == ParseChord(chords[j])
        IN  Entry(file_counter + Len(chords) - j, c.root_note_name \o FormatInt(octave),
                  c.triad_type, (octave + 2) * 12 + NoteIndex(c.root_note_name))]

\* the chords of one octave, in the order of the key's chord list
OctaveChords(chords, octave, file_counter) ==
    [j \in 1..Len(chords) |->
        LET c == ParseChord(chords[j])
        IN  Entry(file_counter + j - 1, c.root_note_name \o FormatInt(octave), c.triad_type,
                  (octave + 2) * 12 + NoteIndex(c.root_note_name))]

\* all_chords of generate_key_chords: octave by octave from start_octave 3,
\* numbered by file_counter in that order
RECURSIVE KeyChords(_, _, _, _)
KeyChords(chords, octave, last_octave, file_counter) ==
    IF octave > last_octave THEN <<>>
    ELSE OctaveChords(chords, octave, file_counter)
         \o KeyChords(chords, octave + 1, last_octave, file_counter + Len(chords))

KeyQueue(key_signature, octaves) ==
    KeyChords(KeyData(key_signature).chords, 3, 3 + octaves - 1, 1)

\* sorted(KEY_SIGNATURES.keys())
SortedKeys ==
    LET keys == {KEY_SIGNATURES[k].key : k \in 1..Len(KEY_SIGNATURES)}
    IN  [r \in 1..Len(KEY_SIGNATURES) |->
            CHOOSE key \in keys : Cardinality({x \in keys : StrLess(x, key)}) = r - 1]

----------------------------------------------------------------------------
(* The table-driven scripts *)

\* notes_data of beatmaker_notes.py
Table_beatmaker ==
    << [file_note |-> <<"C", "#", "1">>,
        track_name |-> <<"I", "n", "t", "r", "o", " ", "C", "#", "1">>],
       [file_note |-> <<"D", "#", "1">>,
        track_name |-> <<"F", "i", "l", "l", " ", "D", "#", "1">>],
       [file_note |-> <<"F", "#", "1">>,
        track_name |-> <<"V", "e", "r", "s", "e", " ", "1", " ", "F", "#", "1">>],
       [file_note |-> <<"G", "#", "1">>,
        track_name |-> <<"V", "e", "r", "s", "e", " ", "2", " ", "G", "#", "1">>],
       [file_note |-> <<"A", "#", "1">>,
        track_name |-> <<"F", "i", "l", "l", " ", "A", "#", "1">>],
       [file_note |-> <<"C", "#", "2">>,
        track_name |-> <<"C", "h", "o", "r", "u", "s", " ", "1", " ", "C", "#", "2">>],
       [file_note |-> <<"D", "#", "2">>,
        track_name |-> <<"C", "h", "o", "r", "u", "s", " ", "2", " ", "D", "#", "2">>],
       [file_note |-> <<"F", "#", "2">>,
        track_name |-> <<"B", "r", "e", "a", "k", " ", "F", "#", "2">>],
       [file_note |-> <<"G", "#", "2">>,
        track_name |-> <<"S", "p", "e", "c", "i", "a", "l", " ", "G", "#", "2">>],
       [file_note |-> <<"A", "#", "2">>,
        track_name |-> <<"E", "n", "d", "i", "n", "g", " ", "A", "#", "2">>] >>

\* notes_data of pianist_notes.py
Table_pianist ==
    << [file_note |-> <<"C", "1">>,
        track_name |-> <<"P", "h", "r", "a", "s", "e", " ", "1", " ", "C", "1">>],
       [file_note |-> <<"C", "#", "1">>,
        track_name |-> <<"L", "o", "w", " ", "C", "h", "o", "r", "d", " ", "C", "#", "1">>],
       [file_note |-> <<"D", "1">>,
        track_name |-> <<"P", "h", "r", "a", "s", "e", " ", "2", " ", "D", "1">>],
       [file_note |-> <<"D", "#", "1">>,
        track_name |-> <<"H", "i", "g", "h", " ", "C", "h", "o", "r", "d", " ", "D", "#", "1">>],
       [file_note |-> <<"E", "1">>,
        track_name |-> <<"P", "h", "r", "a", "s", "e", " ", "3", " ", "E", "1">>],
       [file_note |-> <<"F", "1">>,
        track_name |-> <<"P", "h", "r", "a", "s", "e", " ", "4", " ", "F", "1">>],
       [file_note |-> <<"F", "#", "1">>,
        track_name |-> <<"F", "i", "l", "l", " ", "1", " ", "F", "#", "1">>],
       [file_note |-> <<"G", "1">>,
        track_name |-> <<"P", "h", "r", "a", "s", "e", " ", "5", " ", "G", "1">>],
       [file_note |-> <<"G", "#", "1">>,
        track_name |-> <<"F", "i", "l", "l", " ", "2", " ", "G", "#", "1">>],
       [file_note |-> <<"A", "1">>,
        track_name |-> <<"P", "h", "r", "a", "s", "e", " ", "6", " ", "A", "1">>],
       [file_note |-> <<"A", "#", "1">>,
        track_name |-> <<"F", "i", "l", "l", " ", "3", " ", "f", "o", "r", " ", "A", "#", "1">>],
       [file_note |-> <<"B", "1">>,
        track_name |-> <<"P", "h", "r", "a", "s", "e", " ", "7", " ", "B", "1">>] >>

\* notes_data of playbeat_notes.py
Table_playbeat ==
    << [file_note |-> <<"C", "3">>,
        track_name |-> <<"O", "r", "i", "g", "i", "n", "a", "l", " ", "C", "3">>],
       [file_note |-> <<"C", "#", "3">>,
        track_name |-> <<"R", "e", "m", "i", "x", " ", "1", " ", "C", "#", "3">>],
       [file_note |-> <<"D", "3">>,
        track_name |-> <<"R", "e", "m", "i", "x", " ", "2", " ", "D", "3">>],
       [file_note |-> <<"D", "#", "3">>,
        track_name |-> <<"R", "e", "m", "i", "x", " ", "3", " ", "D", "#", "3">>],
       [file_note |-> <<"E", "3">>,
        track_name |-> <<"R", "e", "m", "i", "x", " ", "4", " ", "E", "3">>],
       [file_note |-> <<"F", "3">>,
        track_name |-> <<"R", "e", "m", "i", "x", " ", "5", " ", "F", "3">>],
       [file_note |-> <<"F", "#", "3">>,
        track_name |-> <<"R", "e", "m", "i", "x", " ", "6", " ", "F", "#", "3">>],
       [file_note |-> <<"G", "3">>,
        track_name |-> <<"R", "e", "m", "i", "x", " ", "7", " ", "G", "3">>],
       [file_note |-> <<"G", "#", "3">>,
        track_name |-> <<"R", "e", "m", "i", "x", " ", "8", " ", "G", "#", "3">>],
       [file_note |-> <<"A", "3">>,
        track_name |-> <<"R", "e", "m", "i", "x", " ", "9", " ", "A", "3">>],
       [file_note |-> <<"A", "#", "3">>,
        track_name |-> <<"R", "e", "m", "i", "x", " ", "1", "0", " ", "A", "#", "3">>],
       [file_note |-> <<"B", "3">>,
        track_name |-> <<"R", "e", "m", "i", "x", " ", "1", "1", " ", "B", "3">>],
       [file_note |-> <<"C", "4">>,
        track_name |-> <<"R", "e", "m", "i", "x", " ", "1", "2", " ", "C", "4">>],
       [file_note |-> <<"C", "#", "4">>,
        track_name |-> <<"R", "e", "m", "i", "x", " ", "1", "3", " ", "C", "#", "4">>],
       [file_note |-> <<"D", "4">>,
        track_name |-> <<"R", "e", "m", "i", "x", " ", "1", "4", " ", "D", "4">>],
       [file_note |-> <<"D", "#", "4">>,
        track_name |-> <<"R", "e", "m", "i", "x", " ", "1", "5", " ", "D", "#", "4">>],
       [file_note |-> <<"E", "4">>,
        track_name |-> <<"R", "e", "m", "i", "x", " ", "1", "6", " ", "E", "4">>],
       [file_note |-> <<"F", "4">>,
        track_name |-> <<"R", "e", "m", "i", "x", " ", "1", "7", " ", "F", "4">>],
       [file_note |-> <<"F", "#", "4">>,
        track_name |-> <<"R", "e", "m", "i", "x", " ", "1", "8", " ", "F", "#", "4">>],
       [file_note |-> <<"G", "4">>,
        track_name |-> <<"R", "e", "m", "i", "x", " ", "1", "9", " ", "G", "4">>],
       [file_note |-> <<"G", "#", "4">>,
        track_name |-> <<"R", "e", "m", "i", "x", " ", "2", "0", " ", "G", "#", "4">>],
       [file_note |-> <<"A", "4">>,
        track_name |-> <<"R", "e", "m", "i", "x", " ", "2", "1", " ", "A", "4">>],
       [file_note |-> <<"A", "#", "4">>,
        track_name |-> <<"R", "e", "m", "i", "x", " ", "2", "2", " ", "A", "#", "4">>],
       [file_note |-> <<"B", "4">>,
        track_name |-> <<"R", "e", "m", "i", "x", " ", "2", "3", " ", "B", "4">>] >>

\* notes_data of usynth_notes.py
Table_usynth ==
    << [file_note |-> <<"C", "1">>,
        track_name |-> <<"L", "o", "o", "p", " ", "1", " ", "C", "1">>],
       [file_note |-> <<"C", "#", "1">>,
        track_name |-> <<"M", "u", "t", "e", " ", "C", "#", "1">>],
       [file_note |-> <<"D", "1">>,
        track_name |-> <<"L", "o", "o", "p", " ", "2", " ", "D", "1">>],
       [file_note |-> <<"D", "#", "1">>,
        track_name |-> <<"R", "e", "p", "e", "a", "t", " ", "D", "#", "1">>],
       [file_note |-> <<"E", "1">>,
        track_name |-> <<"L", "o", "o", "p", " ", "3", " ", "E", "1">>],
       [file_note |-> <<"F", "1">>,
        track_name |-> <<"L", "o", "o", "p", " ", "4", " ", "F", "1">>],
       [file_note |-> <<"F", "#", "1">>,
        track_name |-> <<"T", "i", "m", "e", " ", "x", "2", " ", "F", "#", "1">>],
       [file_note |-> <<"G", "1">>,
        track_name |-> <<"L", "o", "o", "p", " ", "5", " ", "G", "1">>],
       [file_note |-> <<"G", "#", "1">>,
        track_name |-> <<"T", "i", "m", "e", " ", "x", "3", " ", "G", "#", "1">>],
       [file_note |-> <<"A", "1">>,
        track_name |-> <<"L", "o", "o", "p", " ", "6", " ", "A", "1">>],
       [file_note |-> <<"A", "#", "1">>,
        track_name |-> <<"T", "i", "m", "e", " ", "x", "4", " ", "A", "#", "1">>],
       [file_note |-> <<"B", "1">>,
        track_name |-> <<"S", "t", "o", "p", " ", "B", "1">>] >>

\* notes_data of vguitarist_notes.py
Table_vguitarist ==
    << [file_note |-> <<"C", "0">>,
        track_name |-> <<"S", "i", "l", "e", "n", "c", "e", " ", "C", "0">>],
       [file_note |-> <<"C", "#", "0">>,
        track_name |-> <<"P", "h", "r", "a", "s", "e", " ", "1", " ", "C", "#", "0">>],
       [file_note |-> <<"D", "0">>,
        track_name |-> <<"P", "h", "r", "a", "s", "e", " ", "2", " ", "D", "0">>],
       [file_note |-> <<"D", "#", "0">>,
        track_name |-> <<"P", "h", "r", "a", "s", "e", " ", "3", " ", "D", "#", "0">>],
       [file_note |-> <<"E", "0">>,
        track_name |-> <<"P", "h", "r", "a", "s", "e", " ", "4", " ", "E", "0">>],
       [file_note |-> <<"F", "0">>,
        track_name |-> <<"P", "h", "r", "a", "s", "e", " ", "5", " ", "F", "0">>],
       [file_note |-> <<"F", "#", "0">>,
        track_name |-> <<"P", "h", "r", "a", "s", "e", " ", "6", " ", "F", "#", "0">>],
       [file_note |-> <<"G", "0">>,
        track_name |-> <<"P", "h", "r", "a", "s", "e", " ", "7", " ", "G", "0">>],
       [file_note |-> <<"G", "#", "0">>,
        track_name |-> <<"P", "h", "r", "a", "s", "e", " ", "8", " ", "G", "#", "0">>],
       [file_note |-> <<"A", "0">>,
        track_name |-> <<"P", "h", "r", "a", "s", "e", " ", "9", " ", "A", "0">>],
       [file_note |-> <<"A", "#", "0">>,
        track_name |-> <<"P", "h", "r", "a", "s", "e", " ", "1", "0", " ", "A", "#", "0">>],
       [file_note |-> <<"B", "0">>,
        track_name |-> <<"P", "h", "r", "a", "s", "e", " ", "1", "1", " ", "B", "0">>],
       [file_note |-> <<"C", "1">>,
        track_name |-> <<"P", "h", "r", "a", "s", "e", " ", "1", "2", " ", "C", "1">>],
       [file_note |-> <<"C", "#", "1">>,
        track_name |-> <<"P", "h", "r", "a", "s", "e", " ", "1", "3", " ", "C", "#", "1">>],
       [file_note |-> <<"D", "1">>,
        track_name |-> <<"P", "h", "r", "a", "s", "e", " ", "1", "4", " ", "D", "1">>],
       [file_note |-> <<"D", "#", "1">>,
        track_name |-> <<"P", "h", "r", "a", "s", "e", " ", "1", "5", " ", "D", "#", "1">>],
       [file_note |-> <<"E", "1">>,
        track_name |-> <<"P", "h", "r", "a", "s", "e", " ", "1", "6", " ", "E", "1">>],
       [file_note |-> <<"F", "1">>,
        track_name |-> <<"P", "h", "r", "a", "s", "e", " ", "1", "7", " ", "F", "1">>],
       [file_note |-> <<"F", "#", "1">>,
        track_name |-> <<"P", "h", "r", "a", "s", "e", " ", "1", "8", " ", "F", "#", "1">>],
       [file_note |-> <<"G", "1">>,
        track_name |-> <<"P", "h", "r", "a", "s", "e", " ", "1", "9", " ", "G", "1">>],
       [file_note |-> <<"G", "#", "1">>,
        track_name |-> <<"P", "h", "r", "a", "s", "e", " ", "2", "0", " ", "G", "#", "1">>],
       [file_note |-> <<"A", "1">>,
        track_name |-> <<"P", "h", "r", "a", "s", "e", " ", "2", "1", " ", "A", "1">>],
       [file_note |-> <<"A", "#", "1">>,
        track_name |-> <<"P", "h", "r", "a", "s", "e", " ", "2", "2", " ", "A", "#", "1">>],
       [file_note |-> <<"B", "1">>,
        track_name |-> <<"P", "h", "r", "a", "s", "e", " ", "2", "3", " ", "B", "1">>],
       [file_note |-> <<"C", "2">>,
        track_name |-> <<"S", "t", "y", "l", "e", " ", "1", " ", "C", "2">>],
       [file_note |-> <<"C", "#", "2">>,
        track_name |-> <<"S", "t", "y", "l", "e", " ", "2", " ", "C", "#", "2">>],
       [file_note |-> <<"D", "2">>,
        track_name |-> <<"S", "t", "y", "l", "e", " ", "3", " ", "D", "2">>],
       [file_note |-> <<"D", "#", "2">>,
        track_name |-> <<"S", "t", "y", "l", "e", " ", "4", " ", "D", "#", "2">>],
       [file_note |-> <<"E", "2">>,
        track_name |-> <<"S", "t", "y", "l", "e", " ", "5", " ", "E", "2">>],
       [file_note |-> <<"F", "2">>,
        track_name |-> <<"S", "t", "y", "l", "e", " ", "6", " ", "F", "2">>],
       [file_note |-> <<"F", "#", "2">>,
        track_name |-> <<"S", "t", "y", "l", "e", " ", "7", " ", "F", "#", "2">>],
       [file_note |-> <<"G", "2">>,
        track_name |-> <<"S", "t", "y", "l", "e", " ", "8", " ", "G", "2">>],
       [file_note |-> <<"G", "#", "2">>,
        track_name |-> <<"S", "t", "y", "l", "e", " ", "9", " ", "G", "#", "2">>],
       [file_note |-> <<"A", "2">>,
        track_name |-> <<"S", "t", "y", "l", "e", " ", "1", "0", " ", "A", "2">>],
       [file_note |-> <<"A", "#", "2">>,
        track_name |-> <<"S", "t", "y", "l", "e", " ", "1", "1", " ", "A", "#", "2">>],
       [file_note |-> <<"B", "2">>,
        track_name |-> <<"S", "t", "o", "p", " ", "B", "2">>] >>

\* notes_data of drumlab_notes.py
Table_drumlab ==
    << [file_note |-> <<"C", "-", "1">>,
        track_name |-> <<"G", "r", "o", "o", "v", "e", " ", "1", " ", "C", "-", "1">>],
       [file_note |-> <<"C", "#", "-", "1">>,
        track_name |-> <<"G", "r", "o", "o", "v", "e", " ", "2", " ", "C", "#", "-", "1">>],
       [file_note |-> <<"D", "-", "1">>,
        track_name |-> <<"G", "r", "o", "o", "v", "e", " ", "3", " ", "D", "-", "1">>],
       [file_note |-> <<"D", "#", "-", "1">>,
        track_name |-> <<"G", "r", "o", "o", "v", "e", " ", "4", " ", "D", "#", "-", "1">>],
       [file_note |-> <<"E", "-", "1">>,
        track_name |-> <<"G", "r", "o", "o", "v", "e", " ", "5", " ", "E", "-", "1">>],
       [file_note |-> <<"F", "-", "1">>,
        track_name |-> <<"G", "r", "o", "o", "v", "e", " ", "6", " ", "F", "-", "1">>],
       [file_note |-> <<"F", "#", "-", "1">>,
        track_name |-> <<"G", "r", "o", "o", "v", "e", " ", "7", " ", "F", "#", "-", "1">>],
       [file_note |-> <<"G", "-", "1">>,
        track_name |-> <<"G", "r", "o", "o", "v", "e", " ", "8", " ", "G", "-", "1">>],
       [file_note |-> <<"G", "#", "-", "1">>,
        track_name |-> <<"G", "r", "o", "o", "v", "e", " ", "9", " ", "G", "#", "-", "1">>],
       [file_note |-> <<"A", "-", "1">>,
        track_name |-> <<"G", "r", "o", "o", "v", "e", " ", "1", "0", " ", "A", "-", "1">>],
       [file_note |-> <<"A", "#", "-", "1">>,
        track_name |-> <<"G", "r", "o", "o", "v", "e", " ", "1", "1", " ", "A", "#", "-", "1">>],
       [file_note |-> <<"B", "-", "1">>,
        track_name |-> <<"G", "r", "o", "o", "v", "e", " ", "1", "2", " ", "B", "-", "1">>] >>

\* notes_data of s-horns_notes.py
Table_s_horns ==
    << [file_note |-> <<"C", "1">>,
        track_name |-> <<"P", "h", "r", "a", "s", "e", " ", "1", " ", "C", "1">>],
       [file_note |-> <<"D", "1">>,
        track_name |-> <<"P", "h", "r", "a", "s", "e", " ", "2", " ", "D", "1">>],
       [file_note |-> <<"E", "1">>,
        track_name |-> <<"P", "h", "r", "a", "s", "e", " ", "3", " ", "E", "1">>],
       [file_note |-> <<"F", "1">>,
        track_name |-> <<"P", "h", "r", "a", "s", "e", " ", "4", " ", "F", "1">>],
       [file_note |-> <<"G", "1">>,
        track_name |-> <<"P", "h", "r", "a", "s", "e", " ", "5", " ", "G", "1">>],
       [file_note |-> <<"A", "1">>,
        track_name |-> <<"P", "h", "r", "a", "s", "e", " ", "6", " ", "A", "1">>] >>

\* notes_data of spotlight_notes.py
Table_spotlight ==
    << [file_note |-> <<"C", "1">>,
        track_name |-> <<"P", "a", "t", "t", "e", "r", "n", " ", "1", " ", "C", "1">>],
       [file_note |-> <<"C", "#", "1">>,
        track_name |-> <<"P", "a", "t", "t", "e", "r", "n", " ", "2", " ", "C", "#", "1">>],
       [file_note |-> <<"D", "1">>,
        track_name |-> <<"P", "a", "t", "t", "e", "r", "n", " ", "3", " ", "D", "1">>],
       [file_note |-> <<"D", "#", "1">>,
        track_name |-> <<"P", "a", "t", "t", "e", "r", "n", " ", "4", " ", "D", "#", "1">>],
       [file_note |-> <<"E", "1">>,
        track_name |-> <<"P", "a", "t", "t", "e", "r", "n", " ", "5", " ", "E", "1">>],
       [file_note |-> <<"F", "1">>,
        track_name |-> <<"P", "a", "t", "t", "e", "r", "n", " ", "6", " ", "F", "1">>],
       [file_note |-> <<"F", "#", "1">>,
        track_name |-> <<"P", "a", "t", "t", "e", "r", "n", " ", "7", " ", "F", "#", "1">>],
       [file_note |-> <<"G", "1">>,
        track_name |-> <<"P", "a", "t", "t", "e", "r", "n", " ", "8", " ", "G", "1">>],
       [file_note |-> <<"G", "#", "1">>,
        track_name |-> <<"P", "a", "t", "t", "e", "r", "n", " ", "9", " ", "G", "#", "1">>],
       [file_note |-> <<"A", "1">>,
        track_name |-> <<"P", "a", "t", "t", "e", "r", "n", " ", "1", "0", " ", "A", "1">>],
       [file_note |-> <<"A", "#", "1">>,
        track_name |-> <<"P", "a", "t", "t", "e", "r", "n", " ", "1", "1", " ", "A", "#", "1">>],
       [file_note |-> <<"B", "1">>,
        track_name |-> <<"P", "a", "t", "t", "e", "r", "n", " ", "1", "2", " ", "B", "1">>],
       [file_note |-> <<"C", "2">>,
        track_name |-> <<"P", "h", "r", "a", "s", "e", " ", "1", " ", "C", "2">>],
       [file_note |-> <<"C", "#", "2">>,
        track_name |-> <<"P", "h", "r", "a", "s", "e", " ", "2", " ", "C", "#", "2">>],
       [file_note |-> <<"D", "2">>,
        track_name |-> <<"P", "h", "r", "a", "s", "e", " ", "3", " ", "D", "2">>],
       [file_note |-> <<"D", "#", "2">>,
        track_name |-> <<"P", "h", "r", "a", "s", "e", " ", "4", " ", "D", "#", "2">>],
       [file_note |-> <<"E", "2">>,
        track_name |-> <<"P", "h", "r", "a", "s", "e", " ", "5", " ", "E", "2">>],
       [file_note |-> <<"F", "2">>,
        track_name |-> <<"P", "h", "r", "a", "s", "e", " ", "6", " ", "F", "2">>],
       [file_note |-> <<"F", "#", "2">>,
        track_name |-> <<"P", "h", "r", "a", "s", "e", " ", "7", " ", "F", "#", "2">>],
       [file_note |-> <<"G", "2">>,
        track_name |-> <<"P", "h", "r", "a", "s", "e", " ", "8", " ", "G", "2">>],
       [file_note |-> <<"G", "#", "2">>,
        track_name |-> <<"P", "h", "r", "a", "s", "e", " ", "9", " ", "G", "#", "2">>],
       [file_note |-> <<"A", "2">>,
        track_name |-> <<"P", "h", "r", "a", "s", "e", " ", "1", "0", " ", "A", "2">>],
       [file_note |-> <<"A", "#", "2">>,
        track_name |-> <<"P", "h", "r", "a", "s", "e", " ", "1", "1", " ", "A", "#", "2">>],
       [file_note |-> <<"B", "2">>,
        track_name |-> <<"P", "h", "r", "a", "s", "e", " ", "1", "2", " ", "B", "2">>] >>

\* notes_data of drummer_notes.py
Table_drummer ==
    << [file_note |-> <<"C", "3">>,
        track_name |-> <<"V", "e", "r", "s", "e", " ", "1", " ", "C", "3">>],
       [file_note |-> <<"C", "#", "3">>,
        track_name |-> <<"I", "n", "t", "r", "o", " ", "1", " ", "C", "#", "3">>],
       [file_note |-> <<"D", "3">>,
        track_name |-> <<"V", "e", "r", "s", "e", " ", "2", " ", "D", "3">>],
       [file_note |-> <<"D", "#", "3">>,
        track_name |-> <<"I", "n", "t", "r", "o", " ", "2", " ", "D", "#", "3">>],
       [file_note |-> <<"E", "3">>,
        track_name |-> <<"V", "e", "r", "s", "e", " ", "3", " ", "E", "3">>],
       [file_note |-> <<"F", "3">>,
        track_name |-> <<"V", "e", "r", "s", "e", " ", "4", " ", "F", "3">>],
       [file_note |-> <<"F", "#", "3">>,
        track_name |-> <<"F", "i", "l", "l", " ", "1", " ", "F", "#", "3">>],
       [file_note |-> <<"G", "3">>,
        track_name |-> <<"V", "e", "r", "s", "e", " ", "5", " ", "G", "3">>],
       [file_note |-> <<"G", "#", "3">>,
        track_name |-> <<"F", "i", "l", "l", " ", "2", " ", "G", "#", "3">>],
       [file_note |-> <<"A", "3">>,
        track_name |-> <<"C", "h", "o", "r", "u", "s", " ", "1", " ", "A", "3">>],
       [file_note |-> <<"A", "#", "3">>,
        track_name |-> <<"F", "i", "l", "l", " ", "3", " ", "A", "#", "3">>],
       [file_note |-> <<"B", "3">>,
        track_name |-> <<"C", "h", "o", "r", "u", "s", " ", "2", " ", "B", "3">>],
       [file_note |-> <<"C", "4">>,
        track_name |-> <<"C", "h", "o", "r", "u", "s", " ", "3", " ", "C", "4">>],
       [file_note |-> <<"C", "#", "4">>,
        track_name |-> <<"E", "n", "d", "i", "n", "g", " ", "1", " ", "C", "#", "4">>],
       [file_note |-> <<"D", "4">>,
        track_name |-> <<"C", "h", "o", "r", "u", "s", " ", "4", " ", "D", "4">>],
       [file_note |-> <<"D", "#", "4">>,
        track_name |-> <<"E", "n", "d", "i", "n", "g", " ", "2", " ", "D", "#", "4">>],
       [file_note |-> <<"E", "4">>,
        track_name |-> <<"C", "h", "o", "r", "u", "s", " ", "5", " ", "E", "4">>],
       [file_note |-> <<"F", "4">>,
        track_name |-> <<"S", "p", "e", "c", "i", "a", "l", " ", "1", " ", "F", "4">>],
       [file_note |-> <<"F", "#", "4">>,
        track_name |-> <<"B", "r", "e", "a", "k", "d", "o", "w", "n", " ", "1", " ", "F", "#", "4">>],
       [file_note |-> <<"G", "4">>,
        track_name |-> <<"S", "p", "e", "c", "i", "a", "l", " ", "2", " ", "G", "4">>],
       [file_note |-> <<"G", "#", "4">>,
        track_name |-> <<"B", "r", "e", "a", "k", "d", "o", "w", "n", " ", "2", " ", "G", "#", "4">>],
       [file_note |-> <<"A", "4">>,
        track_name |-> <<"S", "p", "e", "c", "i", "a", "l", " ", "3", " ", "A", "4">>],
       [file_note |-> <<"A", "#", "4">>,
        track_name |-> <<"B", "r", "e", "a", "k", "d", "o", "w", "n", " ", "3", " ", "A", "#", "4">>],
       [file_note |-> <<"B", "4">>,
        track_name |-> <<"S", "t", "o", "p", " ", "B", "4">>] >>

\* notes_data of subcraft_notes.py
Table_subcraft ==
    << [file_note |-> <<"C", "2">>,
        track_name |-> <<"L", "o", "o", "p", " ", "1", " ", "C", "2">>],
       [file_note |-> <<"C", "#", "2">>,
        track_name |-> <<"L", "o", "o", "p", " ", "2", " ", "C", "#", "2">>],
       [file_note |-> <<"D", "2">>,
        track_name |-> <<"L", "o", "o", "p", " ", "3", " ", "D", "2">>],
       [file_note |-> <<"D", "#", "2">>,
        track_name |-> <<"S", "t", "o", "p", " ", "D", "#", "2">>],
       [file_note |-> <<"E", "2">>,
        track_name |-> <<"L", "o", "o", "p", " ", "4", " ", "E", "2">>] >>

\* notes_data of vbassist_notes.py
Table_vbassist ==
    << [file_note |-> <<"C", "0">>,
        track_name |-> <<"S", "i", "l", "e", "n", "c", "e", " ", "C", "0">>],
       [file_note |-> <<"C", "#", "0">>,
        track_name |-> <<"P", "h", "r", "a", "s", "e", " ", "1", " ", "C", "#", "0">>],
       [file_note |-> <<"D", "0">>,
        track_name |-> <<"P", "h", "r", "a", "s", "e", " ", "2", " ", "D", "0">>],
       [file_note |-> <<"D", "#", "0">>,
        track_name |-> <<"P", "h", "r", "a", "s", "e", " ", "3", " ", "D", "#", "0">>],
       [file_note |-> <<"E", "0">>,
        track_name |-> <<"P", "h", "r", "a", "s", "e", " ", "4", " ", "E", "0">>],
       [file_note |-> <<"F", "0">>,
        track_name |-> <<"P", "h", "r", "a", "s", "e", " ", "5", " ", "F", "0">>],
       [file_note |-> <<"F", "#", "0">>,
        track_name |-> <<"P", "h", "r", "a", "s", "e", " ", "6", " ", "F", "#", "0">>],
       [file_note |-> <<"G", "0">>,
        track_name |-> <<"P", "h", "r", "a", "s", "e", " ", "7", " ", "G", "0">>],
       [file_note |-> <<"G", "#", "0">>,
        track_name |-> <<"P", "h", "r", "a", "s", "e", " ", "8", " ", "G", "#", "0">>],
       [file_note |-> <<"A", "0">>,
        track_name |-> <<"P", "h", "r", "a", "s", "e", " ", "9", " ", "A", "0">>],
       [file_note |-> <<"A", "#", "0">>,
        track_name |-> <<"P", "h", "r", "a", "s", "e", " ", "1", "0", " ", "A", "#", "0">>],
       [file_note |-> <<"B", "0">>,
        track_name |-> <<"P", "h", "r", "a", "s", "e", " ", "1", "1", " ", "B", "0">>],
       [file_note |-> <<"C", "1">>,
        track_name |-> <<"P", "h", "r", "a", "s", "e", " ", "1", "2", " ", "C", "1">>],
       [file_note |-> <<"C", "#", "1">>,
        track_name |-> <<"I", "n", "t", "r", "o", " ", "1", " ", "C", "#", "1">>],
       [file_note |-> <<"D", "1">>,
        track_name |-> <<"P", "h", "r", "a", "s", "e", " ", "1", "3", " ", "D", "1">>],
       [file_note |-> <<"D", "#", "1">>,
        track_name |-> <<"I", "n", "t", "r", "o", " ", "2", " ", "D", "#", "1">>],
       [file_note |-> <<"E", "1">>,
        track_name |-> <<"P", "h", "r", "a", "s", "e", " ", "1", "4", " ", "E", "1">>],
       [file_note |-> <<"F", "1">>,
        track_name |-> <<"P", "h", "r", "a", "s", "e", " ", "1", "5", " ", "F", "1">>],
       [file_note |-> <<"F", "#", "1">>,
        track_name |-> <<"F", "i", "l", "l", " ", "1", " ", "F", "#", "1">>],
       [file_note |-> <<"G", "1">>,
        track_name |-> <<"P", "h", "r", "a", "s", "e", " ", "1", "6", " ", "G", "1">>],
       [file_note |-> <<"G", "#", "1">>,
        track_name |-> <<"F", "i", "l", "l", " ", "2", " ", "G", "#", "1">>],
       [file_note |-> <<"A", "1">>,
        track_name |-> <<"P", "h", "r", "a", "s", "e", " ", "1", "7", " ", "A", "1">>],
       [file_note |-> <<"A", "#", "1">>,
        track_name |-> <<"F", "i", "l", "l", " ", "3", " ", "A", "#", "1">>],
       [file_note |-> <<"B", "1">>,
        track_name |-> <<"P", "h", "r", "a", "s", "e", " ", "1", "8", " ", "B", "1">>],
       [file_note |-> <<"C", "2">>,
        track_name |-> <<"S", "t", "y", "l", "e", " ", "1", " ", "C", "2">>],
       [file_note |-> <<"C", "#", "2">>,
        track_name |-> <<"S", "t", "y", "l", "e", " ", "I", "n", "t", "r", "o", " ", "1", " ", "C", "#", "2">>],
       [file_note |-> <<"D", "2">>,
        track_name |-> <<"S", "t", "y", "l", "e", " ", "2", " ", "D", "2">>],
       [file_note |-> <<"D", "#", "2">>,
        track_name |-> <<"S", "t", "y", "l", "e", " ", "I", "n", "t", "r", "o", " ", "2", " ", "D", "#", "2">>],
       [file_note |-> <<"E", "2">>,
        track_name |-> <<"S", "t", "y", "l", "e", " ", "3", " ", "E", "2">>],
       [file_note |-> <<"F", "2">>,
        track_name |-> <<"S", "t", "y", "l", "e", " ", "4", " ", "F", "2">>],
       [file_note |-> <<"F", "#", "2">>,
        track_name |-> <<"S", "t", "y", "l", "e", " ", "F", "i", "l", "l", " ", "1", " ", "F", "#", "2">>],
       [file_note |-> <<"G", "2">>,
        track_name |-> <<"S", "t", "y", "l", "e", " ", "5", " ", "G", "2">>],
       [file_note |-> <<"G", "#", "2">>,
        track_name |-> <<"S", "t", "y", "l", "e", " ", "F", "i", "l", "l", " ", "2", " ", "G", "#", "2">>],
       [file_note |-> <<"A", "2">>,
        track_name |-> <<"S", "t", "y", "l", "e", " ", "6", " ", "A", "2">>],
       [file_note |-> <<"A", "#", "2">>,
        track_name |-> <<"S", "t", "y", "l", "e", " ", "F", "i", "l", "l", " ", "3", " ", "A", "#", "2">>],
       [file_note |-> <<"B", "2">>,
        track_name |-> <<"S", "t", "o", "p", " ", "B", "2">>] >>

\* the table-driven scripts: output directory, parser (slice: name = all but
\* the last character; regex: the anchored note grammar), note length in
\* ticks, number of note_on / note_off pairs written per file, and whether
\* the file name passes through .replace("x", "x")
Scripts ==
    << [script |-> "beatmaker", notes_data |-> Table_beatmaker,
        output_dir |-> << <<"n", "o", "t", "e", "s", "_", "b", "e", "a", "t", "m", "a", "k", "e", "r">> >>,
        parser |-> "slice",
        note_duration |-> 1920, notes |-> 1, keep_x |-> FALSE],
       [script |-> "pianist", notes_data |-> Table_pianist,
        output_dir |-> << <<"n", "o", "t", "e", "s", "_", "p", "i", "a", "n", "i", "s", "t">> >>,
        parser |-> "slice",
        note_duration |-> 1920, notes |-> 1, keep_x |-> FALSE],
       [script |-> "playbeat", notes_data |-> Table_playbeat,
        output_dir |-> << <<"n", "o", "t", "e", "s", "_", "p", "l", "a", "y", "b", "e", "a", "t">> >>,
        parser |-> "slice",
        note_duration |-> 16 * 480, notes |-> 1, keep_x |-> TRUE],
       [script |-> "usynth", notes_data |-> Table_usynth,
        output_dir |-> << <<"n", "o", "t", "e", "s", "_", "u", "s", "y", "n", "t", "h">> >>,
        parser |-> "slice",
        note_duration |-> 8 * 480, notes |-> 1, keep_x |-> TRUE],
       [script |-> "vguitarist", notes_data |-> Table_vguitarist,
        output_dir |-> << <<"n", "o", "t", "e", "s", "_", "v", "-", "g", "u", "i", "t", "a", "r", "i", "s", "t">> >>,
        parser |-> "slice",
        note_duration |-> 1920, notes |-> 1, keep_x |-> FALSE],
       [script |-> "drumlab", notes_data |-> Table_drumlab,
        output_dir |-> << <<"n", "o", "t", "e", "s", "_", "d", "r", "u", "m", "l", "a", "b">> >>,
        parser |-> "regex",
        note_duration |-> 1920, notes |-> 1, keep_x |-> FALSE],
       [script |-> "s_horns", notes_data |-> Table_s_horns,
        output_dir |-> << <<"n", "o", "t", "e", "s", "_", "s", "-", "h", "o", "r", "n", "s">> >>,
        parser |-> "slice",
        note_duration |-> 1920, notes |-> 1, keep_x |-> FALSE],
       [script |-> "spotlight", notes_data |-> Table_spotlight,
        output_dir |-> << <<"n", "o", "t", "e", "s", "_", "s", "p", "o", "t", "l", "i", "g", "h", "t">> >>,
        parser |-> "regex",
        note_duration |-> 1920, notes |-> 1, keep_x |-> FALSE],
       [script |-> "drummer", notes_data |-> Table_drummer,
        output_dir |-> << <<"n", "o", "t", "e", "s", "_", "d", "r", "u", "m", "m", "e", "r">> >>,
        parser |-> "slice",
        note_duration |-> 1920, notes |-> 1, keep_x |-> FALSE],
       [script |-> "subcraft", notes_data |-> Table_subcraft,
        output_dir |-> << <<"n", "o", "t", "e", "s", "_", "s", "u", "b", "c", "r", "a", "f", "t">> >>,
        parser |-> "slice",
        note_duration |-> 8 * 480, notes |-> 2, keep_x |-> FALSE],
       [script |-> "vbassist", notes_data |-> Table_vbassist,
        output_dir |-> << <<"n", "o", "t", "e", "s", "_", "v", "-", "b", "a", "s", "s", "i", "s", "t">> >>,
        parser |-> "slice",
        note_duration |-> 1920, notes |-> 1, keep_x |-> FALSE] >>

\* the outcome of parsing one table entry
Parsed(what, note_index, octave) == [exc |-> what, note_index |-> note_index, octave |-> octave]

\* note_name = file_note[:-1]; octave = int(file_note[-1]);
\* note_index = note_names.index(note_name)
SliceParse(file_note) ==
    IF Len(file_note) = 0 THEN Parsed("IndexError: string index out of range", 0, 0)
    ELSE IF file_note[Len(file_note)] \notin Digits
    THEN Parsed("ValueError: invalid literal for int()", 0, 0)
    ELSE IF NoteIndex(SubSeq(file_note, 1, Len(file_note) - 1)) = -1
    THEN Parsed("ValueError: is not in list", 0, 0)
    ELSE Parsed("none", NoteIndex(SubSeq(file_note, 1, Len(file_note) - 1)),
                DigitVal(file_note[Len(file_note)]))

\* re.match(r"^([A-G]#?)(-?\d+)$", file_note): the whole string must match
\* ($ also matches before one final newline)
RegexParse(file_note) ==
    LET m == NoteMatch(file_note)
        whole == \/ m.last = Len(file_note)
                 \/ (m.last = Len(file_note) - 1 /\ file_note[Len(file_note)] = "\n")
    IN  IF ~(m.ok /\ whole) THEN Parsed("ValueError: Invalid note format", 0, 0)
        ELSE IF NoteIndex(m.note_name) = -1 THEN Parsed("ValueError: is not in list", 0, 0)
        ELSE Parsed("none", NoteIndex(m.note_name), m.octave)

ParseEntry(parser, file_note) ==
    IF parser = "regex" THEN RegexParse(file_note) ELSE SliceParse(file_note)

\* the first loop of a script: every entry is parsed and its MIDI number
\* computed; the first entry that fails raises and ends the script
ParseTable(parser, notes_data) ==
    LET p == [k \in 1..Len(notes_data) |-> ParseEntry(parser, notes_data[k].file_note)]
        bad == {k \in 1..Len(notes_data) : p[k].exc # "none"}
    IN  IF bad # {}
        THEN [exc |-> p[CHOOSE k \in bad : \A j \in bad : k <= j].exc, notes_with_midi |-> <<>>]
        ELSE [exc |-> "none",
              notes_with_midi |->
                  [k \in 1..Len(notes_data) |->
                      Entry(0, notes_data[k].file_note, notes_data[k].track_name,
                            AbletonMidi(p[k].octave, p[k].note_index))]]

\* notes_with_midi sorted by MIDI number and numbered from 1
ScriptQueue(notes_with_midi) == Enumerate(SortByMidi(notes_with_midi))

\* mutant: the note is switched off before it is switched on
RepeatNoteMutant(midi, duration_ticks, n) ==
    << Message("note_off", midi, 64, duration_ticks), Message("note_on", midi, 64, 0) >>

\* the note events of a script file: one pair, or the pair twice
RECURSIVE RepeatNote(_, _, _)
RepeatNote(midi, duration_ticks, n) ==
    IF n = 0 THEN <<>>
    ELSE SingleNote(midi, duration_ticks) \o RepeatNote(midi, duration_ticks, n - 1)

\* the loop body of a script for one entry, up to mid.save
CreateScriptFile(sc, e) ==
    IF MessageRaises(e.midi) THEN Raised("ValueError: data byte must be in range 0..127")
    ELSE LET replaced == ReplaceChar(e.label, " ", "_")
             safe_filename == IF sc.keep_x THEN ReplaceChar(replaced, "x", "x") ELSE replaced
         IN  Built(FormatPadded(e.file_number, 2) \o <<" ">> \o safe_filename \o Str_mid,
                   Header(e.label, 120) \o RepeatNote(e.midi, sc.note_duration, sc.notes)
                       \o EndOfTrack,
                   e.midi, DisplayName(e.midi, 1))

\* the rows of the table show_example_output prints: Ableton file, MIDI
\* number, standard pitch
ExampleTable ==
    << [ableton_file |-> <<"0", "1", " ", "C", "0", ".", "m", "i", "d">>, midi |-> 24, standard_pitch |-> <<"C", "1">>],
       [ableton_file |-> <<"3", "7", " ", "C", "3", ".", "m", "i", "d">>, midi |-> 48, standard_pitch |-> <<"C", "4">>],
       [ableton_file |-> <<"7", "3", " ", "C", "6", ".", "m", "i", "d">>, midi |-> 96, standard_pitch |-> <<"C", "7">>] >>

----------------------------------------------------------------------------
(* Inputs *)

DEFAULT_DURATION_TICKS == 3840
NOTE_DURATION_TICKS == 3840
BPM == 120

Durations == {1920, DEFAULT_DURATION_TICKS}
FileNumbers == {1, MaxFileNumber}

\* names of the 12 pitch classes in every octave of the bound
WellFormedNames ==
    {NOTE_NAMES[k] \o FormatInt(o) : k \in 1..12, o \in (0 - MaxOctave)..MaxOctave}

\* names the grammar accepts whose pitch class is not in the table
OffTableNames ==
    {<<l, "#">> \o FormatInt(o) : l \in {"E", "B"}, o \in {-3, -1, 3, 9}}

\* accepted by the grammar in a form str() never produces
UnusualNames ==
    { <<"C", "-", "0">>, <<"C", "0", "3">>, <<"A", "#", "-", "0", "1">>,
      <<"C", "3", "x">>, <<"C", "3", " ">>, <<"C", "3", "-", "1">>, <<"G", "8", "#">> }

\* strings the grammar rejects
MalformedNames ==
    { <<>>, <<"C">>, <<"C", "#">>, <<"C", "-">>, <<"H", "3">>, <<"c", "3">>,
      <<"3">>, <<" ", "C", "3">>, <<"C", "b", "3">>, <<"C", "#", "#", "3">>,
      <<"C", "-", "-", "1">>, <<"#", "3">>, <<"C", " ", "3">> }

NameInputs == WellFormedNames \cup OffTableNames \cup UnusualNames \cup MalformedNames

Str_Sus4 == <<"S", "u", "s", "4">>
TriadTypeInputs ==
    {triad_types[k] : k \in 1..4} \cup {Lower(Str_Major), Str_Sus4, <<>>}

\* start octaves of the drawn ranges: below, inside and above the MIDI range
RangeStartOctaves == {-3, -2, 3, 8, 9}
\* pitch classes of the drawn range ends: C, F#, B (positions in NOTE_NAMES)
RangePitchClasses == {1, 7, 12}

\* well-formed ranges: ascending, within one octave, and reversed
RangePairs ==
    {<<NOTE_NAMES[k1] \o FormatInt(o), NOTE_NAMES[k2] \o FormatInt(o + d)>> :
        k1 \in RangePitchClasses, k2 \in RangePitchClasses,
        o \in RangeStartOctaves, d \in -1..MaxRangeOctaves}

\* ranges with a start or an end outside the grammar or the table, or with
\* text after the octave
OddRangePairs ==
    { << <<"H", "3">>, <<"C", "3">> >>, << <<"C", "3">>, <<>> >>,
      << <<"E", "#", "3">>, <<"C", "4">> >>, << <<"C", "3">>, <<"B", "#", "3">> >>,
      << <<"C", "3", "x">>, <<"D", "3">> >> }

\* generate_all_notes_c0_to_c6 / generate_standard_c0_to_c6
DefaultNoteRange == << <<"C", "0">>, <<"C", "6">> >>

NoteRangeCalls ==
    [fn : {"generate_ableton_range"},
     range : RangePairs \cup OddRangePairs \cup {DefaultNoteRange},
     include_track_names : BOOLEAN, duration_ticks : {DEFAULT_DURATION_TICKS}]
    \cup
    [fn : {"generate_standard_range"},
     range : RangePairs \cup OddRangePairs \cup {DefaultNoteRange},
     include_track_names : {TRUE}, duration_ticks : {DEFAULT_DURATION_TICKS}]

MiddleCCalls ==
    [fn : {"generate_middle_c_range"}, duration_ticks : Durations]

\* generate_chord_triads_range: its default range C3..C5, drawn ranges and
\* ranges that do not parse
DefaultChordRange == << <<"C", "3">>, <<"C", "5">> >>

ChordRangeCalls ==
    [fn : {"generate_chord_triads_range"},
     range : RangePairs \cup OddRangePairs \cup {DefaultChordRange}]

\* generate_key_chords: every key of KEY_SIGNATURES, and names that are not keys
InvalidKeys == { <<"H", " ", "M", "a", "j", "o", "r">>, <<"c", " ", "m", "a", "j", "o", "r">>, <<>> }

KeyChordCalls ==
    [fn : {"generate_key_chords"},
     key_signature : {KEY_SIGNATURES[k].key : k \in 1..Len(KEY_SIGNATURES)} \cup InvalidKeys,
     octaves : 0..MaxKeyOctaves]

\* entries for tables other than the scripts' own: sharps, a pitch given
\* twice, a negative and a two-digit octave, a pitch above 127, and track
\* names with spaces
TablePool ==
    { [file_note |-> <<"A", "#", "2">>, track_name |-> <<"F", "i", "l", "l", " ", "2">>],
      [file_note |-> <<"C", "#", "1">>, track_name |-> <<"I", "n", "t", "r", "o">>],
      [file_note |-> <<"C", "1">>, track_name |-> <<"K", "i", "c", "k">>],
      [file_note |-> <<"C", "1">>, track_name |-> <<"K", "i", "c", "k", " ", "x", "2">>],
      [file_note |-> <<"C", "-", "1">>, track_name |-> <<"L", "o", "w">>],
      [file_note |-> <<"D", "9">>, track_name |-> <<"T", "o", "p">>],
      [file_note |-> <<"C", "1", "0">>, track_name |-> <<"T", "e", "n">>] }

\* tables of up to MaxTableLen different pool entries, in every order
DrawnTables ==
    UNION { {t \in [1..n -> TablePool] : \A a, b \in 1..n : a # b => t[a] # t[b]} :
            n \in 0..MaxTableLen }

\* a script run on its own table, or on a drawn one
ScriptCalls ==
    { [fn |-> "script", script |-> k, notes_data |-> t] :
        k \in 1..Len(Scripts), t \in DrawnTables }
    \cup
    { [fn |-> "script", script |-> k, notes_data |-> Scripts[k].notes_data] :
        k \in 1..Len(Scripts) }

\* generate_all_key_chords, called directly
AllKeyCalls ==
    [fn : {"generate_all_key_chords"}, octaves : {0, 1}]

\* texts entered at the mode prompt of create_chords.py that lead to mode 1,
\* to mode 2 and to mode 3
Mode1Texts == {<<"1">>, <<>>, <<" ", "1", " ">>, <<"x">>, <<"0">>, <<"4">>, <<"-", "2">>, <<"2", ".", "0">>}
Mode2Texts == {<<"2">>, <<" ", "2", " ">>, <<"+", "2">>}
Mode3Texts == {<<"3">>, <<"0", "3">>}
\* texts entered at the key prompt and at the octaves prompt
KeyTexts == {<<>>, <<"A", " ", "M", "i", "n", "o", "r">>, <<"H", " ", "M", "a", "j", "o", "r">>, <<"c", " ", "m", "a", "j", "o", "r">>, <<" ", "F", "#", " ", "M", "a", "j", "o", "r", " ">>}
OctaveTexts == {<<>>, <<"1">>, <<"x">>, <<"-", "1">>}

\* a run of create_chords.py as a program: what is typed at its prompts (a
\* prompt that is not shown reads nothing)
ChordsMainCalls ==
    [fn : {"create_chords_main"}, mode_text : Mode1Texts,
     key_text : {<<>>}, octaves_text : {<<>>}]
    \cup
    [fn : {"create_chords_main"}, mode_text : Mode2Texts,
     key_text : KeyTexts, octaves_text : OctaveTexts]
    \cup
    [fn : {"create_chords_main"}, mode_text : Mode3Texts,
     key_text : {<<>>}, octaves_text : {<<"1">>, <<"0">>}]

\* the batch calls for which a failing save is drawn, and which save fails
SaveErrorCalls ==
    { c \in NoteRangeCalls : c.range = DefaultNoteRange }
    \cup MiddleCCalls
    \cup { c \in ChordRangeCalls : c.range = DefaultChordRange }
    \cup { c \in KeyChordCalls : c.octaves = 2 /\ c.key_signature = KEY_SIGNATURES[1].key }
    \cup { c \in AllKeyCalls : c.octaves = 1 }

SaveErrors == {1, 9}

----------------------------------------------------------------------------
(* Initial state: one invocation, in an empty starting directory *)

SingleNoteCalls ==
    [fn : {"create_note_midi_ableton_final", "create_note_midi_standard"},
     name : NameInputs, file_number : FileNumbers, duration_ticks : Durations]

ChordCalls ==
    [fn : {"create_chord_triad_midi"},
     name : NameInputs, triad_type : TriadTypeInputs,
     file_number : FileNumbers, duration_ticks : {NOTE_DURATION_TICKS}]
    \cup
    [fn : {"create_chord_triad_midi"},
     name : {<<"C", "3">>}, triad_type : {Str_Major},
     file_number : {1}, duration_ticks : Durations]

Init ==
    /\ \/ cmd \in SingleNoteCalls
       \/ cmd \in ChordCalls
       \/ cmd \in NoteRangeCalls
       \/ cmd \in MiddleCCalls
       \/ cmd \in ChordRangeCalls
       \/ cmd \in KeyChordCalls
       \/ cmd \in ScriptCalls
       \/ cmd \in AllKeyCalls
       \/ cmd \in ChordsMainCalls
    /\ stack = <<>>
    /\ save_error_at \in {0} \cup (IF cmd \in SaveErrorCalls THEN SaveErrors ELSE {})
    /\ saves = 0
    /\ run = 1
    /\ first_files = {}
    /\ pc = "ready"
    /\ cwd = <<>>
    /\ original_dir = <<>>
    /\ dirs = {<<>>}
    /\ files = {}
    /\ queue = <<>>
    /\ pos = 0
    /\ created_count = 0
    /\ out = <<>>
    /\ exc = "none"

----------------------------------------------------------------------------
(* Single-file calls *)

\* the effect of a single-file function called in the working directory:
\* the file is saved and reported, or the exception leaves the call
SingleCall(r) ==
    /\ files' = IF r.exc = "none" THEN Save(files, cwd, r.filename, r.track) ELSE files
    /\ out' = IF r.exc = "none" THEN Append(out, Created(r))
              ELSE out
    /\ exc' = r.exc
    /\ pc' = IF r.exc = "none" THEN "done" ELSE "raised"
    /\ saves' = IF r.exc = "none" THEN saves + 1 ELSE saves
    /\ UNCHANGED <<stack, save_error_at, run, first_files, cmd, cwd, original_dir, dirs, queue, pos, created_count>>

Call_create_note_midi_ableton_final ==
    /\ pc = "ready"
    /\ cmd.fn = "create_note_midi_ableton_final"
    /\ SingleCall(CreateNoteAbleton(cmd.name, cmd.file_number, cmd.duration_ticks, 120))

Call_create_note_midi_standard ==
    /\ pc = "ready"
    /\ cmd.fn = "create_note_midi_standard"
    /\ SingleCall(CreateNoteStandard(cmd.name, cmd.file_number, cmd.duration_ticks, 120))

Call_create_chord_triad_midi ==
    /\ pc = "ready"
    /\ cmd.fn = "create_chord_triad_midi"
    /\ SingleCall(CreateChordTriad(cmd.name, cmd.triad_type, cmd.file_number,
                                   cmd.duration_ticks, BPM))

----------------------------------------------------------------------------
(* Batch runs of create_notes.py *)

\* a batch function up to its loop: the output directory is created, then
\* the range is parsed (a failure leaves the function) and enumerated
StartRange(dir, offset) ==
    LET p == ParseRange(cmd.range[1], cmd.range[2])
    IN  /\ dirs' = dirs \cup {cwd \o dir}
        /\ IF p.exc # "none"
           THEN /\ pc' = "raised"
                /\ exc' = p.exc
                /\ queue' = queue
           ELSE /\ pc' = "loop"
                /\ exc' = exc
                /\ queue' = RangeQueue(p, offset)
        /\ UNCHANGED <<stack, save_error_at, saves, run, first_files, cmd, cwd, original_dir, files, pos, created_count, out>>

\* mid.save raises OSError at the save_error_at-th save of the run
SaveFails == saves + 1 = save_error_at

\* mutant: the first entry that fails ends the loop
BatchStepMutant(e, r, dir) ==
    /\ original_dir' = cwd
    /\ saves' = IF r.exc = "none" THEN saves + 1 ELSE saves
    /\ IF r.exc = "none" /\ SaveFails
       THEN /\ cwd' = cwd \o dir
            /\ pc' = "raised"
            /\ exc' = "OSError"
            /\ UNCHANGED <<files, created_count, out, pos>>
       ELSE /\ files' = IF r.exc = "none" THEN Save(files, cwd \o dir, r.filename, r.track)
                        ELSE files
            /\ created_count' = IF r.exc = "none" THEN created_count + 1 ELSE created_count
            /\ out' = IF r.exc = "none"
                      THEN Append(out, Created(r)) ELSE out
            /\ pos' = IF r.exc = "none" THEN pos + 1 ELSE Len(queue)
            /\ cwd' = original_dir'
            /\ UNCHANGED <<pc, exc>>
    /\ UNCHANGED <<stack, save_error_at, run, first_files, cmd, dirs, queue>>

\* one pass of the loop body around outcome r of entry e: chdir into dir,
\* save or skip on ValueError, chdir back.  An OSError of mid.save is not a
\* ValueError: it leaves the function from inside the loop body, before the
\* chdir back
BatchStep(e, r, dir) ==
    /\ original_dir' = cwd
    /\ saves' = IF r.exc = "none" THEN saves + 1 ELSE saves
    /\ IF r.exc = "none" /\ SaveFails
       THEN /\ cwd' = cwd \o dir
            /\ pc' = "raised"
            /\ exc' = "OSError"
            /\ UNCHANGED <<files, created_count, out, pos>>
       ELSE /\ files' = IF r.exc = "none" THEN Save(files, cwd \o dir, r.filename, r.track)
                        ELSE files
            /\ created_count' = IF r.exc = "none" THEN created_count + 1 ELSE created_count
            /\ out' = Append(out, IF r.exc = "none" THEN Created(r)
                                  ELSE Notice("Skipping",
                                              IF e.label = <<>> THEN e.display_name
                                              ELSE e.display_name \o <<" ">> \o e.label, <<>>))
            /\ pos' = pos + 1
            /\ cwd' = original_dir'
            /\ UNCHANGED <<pc, exc>>
    /\ UNCHANGED <<stack, save_error_at, run, first_files, cmd, dirs, queue>>

\* the end of a batch function: the loop is over, the summary is printed
FinishBatch ==
    /\ pc' = "done"
    /\ out' = Append(out, Notice("Summary", FormatNat(created_count), <<>>))
    /\ UNCHANGED <<stack, save_error_at, saves, run, first_files, cmd, dirs, files, queue, pos, created_count, exc>>

Start_generate_ableton_range ==
    /\ pc = "ready"
    /\ cmd.fn = "generate_ableton_range"
    /\ StartRange(Dir_ableton_sequential, 2)

Step_generate_ableton_range ==
    /\ pc = "loop"
    /\ cmd.fn = "generate_ableton_range"
    /\ pos < Len(queue)
    /\ LET e == queue[pos + 1]
       IN  BatchStep(e,
                     IF cmd.include_track_names
                     THEN CreateNoteAbleton(e.display_name, e.file_number,
                                            cmd.duration_ticks, 120)
                     ELSE CreateNoteBare(e.display_name, e.midi, e.file_number,
                                         cmd.duration_ticks),
                     Dir_ableton_sequential)

Start_generate_standard_range ==
    /\ pc = "ready"
    /\ cmd.fn = "generate_standard_range"
    /\ StartRange(Dir_standard_sequential, 1)

Step_generate_standard_range ==
    /\ pc = "loop"
    /\ cmd.fn = "generate_standard_range"
    /\ pos < Len(queue)
    /\ LET e == queue[pos + 1]
       IN  BatchStep(e, CreateNoteStandard(e.display_name, e.file_number,
                                           cmd.duration_ticks, 120),
                     Dir_standard_sequential)

\* the loop of a range function has run out: it prints its summary and returns
Finish_range ==
    /\ pc = "loop"
    /\ cmd.fn \in {"generate_ableton_range", "generate_standard_range"}
    /\ pos = Len(queue)
    /\ FinishBatch
    /\ UNCHANGED <<cwd, original_dir>>

\* generate_middle_c_range changes directory once, before its loop
Start_generate_middle_c_range ==
    /\ pc = "ready"
    /\ cmd.fn = "generate_middle_c_range"
    /\ dirs' = dirs \cup {cwd \o Dir_middle_c_range}
    /\ original_dir' = cwd
    /\ cwd' = cwd \o Dir_middle_c_range
    /\ queue' = MiddleCQueue
    /\ pc' = "loop"
    /\ UNCHANGED <<stack, save_error_at, saves, run, first_files, cmd, files, pos, created_count, out, exc>>

Step_generate_middle_c_range ==
    /\ pc = "loop"
    /\ cmd.fn = "generate_middle_c_range"
    /\ pos < Len(queue)
    /\ LET e == queue[pos + 1]
           r == CreateNoteMiddleC(e.display_name, e.midi, e.file_number, cmd.duration_ticks)
       IN  /\ saves' = IF r.exc = "none" THEN saves + 1 ELSE saves
           /\ IF r.exc = "none" /\ SaveFails
              THEN /\ pc' = "raised"
                   /\ exc' = "OSError"
                   /\ UNCHANGED <<files, created_count, out, pos>>
              ELSE /\ files' = IF r.exc = "none" THEN Save(files, cwd, r.filename, r.track)
                               ELSE files
                   /\ created_count' = IF r.exc = "none" THEN created_count + 1
                                       ELSE created_count
                   /\ out' = Append(out, IF r.exc = "none"
                                         THEN Created(r)
                                         ELSE Notice("Skipping", e.display_name, <<>>))
                   /\ pos' = pos + 1
                   /\ UNCHANGED <<pc, exc>>
    /\ UNCHANGED <<stack, save_error_at, run, first_files, cmd, cwd, original_dir, dirs, queue>>

Finish_generate_middle_c_range ==
    /\ pc = "loop"
    /\ cmd.fn = "generate_middle_c_range"
    /\ pos = Len(queue)
    /\ cwd' = original_dir
    /\ FinishBatch
    /\ UNCHANGED original_dir

----------------------------------------------------------------------------
(* Batch runs of create_chords.py *)

\* generate_chord_triads_range up to its loop: both directories are created,
\* then the range is parsed (a failure leaves the function) and enumerated
Start_generate_chord_triads_range ==
    /\ pc = "ready"
    /\ cmd.fn = "generate_chord_triads_range"
    /\ LET p == ParseRange(cmd.range[1], cmd.range[2])
           output_dir == RangeDir(cmd.range[1], cmd.range[2])
       IN  /\ dirs' = dirs \cup {cwd \o <<Dir_ableton_triads>>, cwd \o output_dir}
           /\ IF p.exc # "none"
              THEN /\ pc' = "raised"
                   /\ exc' = p.exc
                   /\ queue' = queue
              ELSE /\ pc' = "loop"
                   /\ exc' = exc
                   /\ queue' = ChordRangeQueue(p)
    /\ UNCHANGED <<stack, save_error_at, saves, run, first_files, cmd, cwd, original_dir, files, pos, created_count, out>>

Step_generate_chord_triads_range ==
    /\ pc = "loop"
    /\ cmd.fn = "generate_chord_triads_range"
    /\ pos < Len(queue)
    /\ LET e == queue[pos + 1]
       IN  BatchStep(e, CreateChordTriad(e.display_name, e.label, e.file_number,
                                         NOTE_DURATION_TICKS, BPM),
                     RangeDir(cmd.range[1], cmd.range[2]))

\* generate_key_chords up to its loop: an unknown key raises before anything
\* is created; a chord root outside the note table raises while the chords
\* are enumerated
Start_generate_key_chords ==
    /\ pc = "ready"
    /\ cmd.fn = "generate_key_chords"
    /\ LET chords == KeyData(cmd.key_signature).chords
           known == KnownKey(cmd.key_signature)
           bad_root == /\ cmd.octaves > 0
                       /\ \E j \in 1..Len(chords) :
                              NoteIndex(ParseChord(chords[j]).root_note_name) = -1
       IN  IF ~known
           THEN /\ pc' = "raised"
                /\ exc' = "ValueError: Invalid key signature"
                /\ UNCHANGED <<dirs, queue>>
           ELSE /\ dirs' = dirs \cup {cwd \o <<Dir_ableton_triads>>,
                                      cwd \o KeyDir(cmd.key_signature)}
                /\ IF bad_root
                   THEN /\ pc' = "raised"
                        /\ exc' = "ValueError: Invalid note name in chord"
                        /\ queue' = queue
                   ELSE /\ pc' = "loop"
                        /\ exc' = exc
                        /\ queue' = KeyQueue(cmd.key_signature, cmd.octaves)
    /\ UNCHANGED <<stack, save_error_at, saves, run, first_files, cmd, cwd, original_dir, files, pos, created_count, out>>

Step_generate_key_chords ==
    /\ pc = "loop"
    /\ cmd.fn = "generate_key_chords"
    /\ pos < Len(queue)
    /\ LET e == queue[pos + 1]
       IN  BatchStep(e, CreateChordTriad(e.display_name, e.label, e.file_number,
                                         NOTE_DURATION_TICKS, BPM),
                     KeyDir(cmd.key_signature))

\* the loop of a chord batch has run out: it prints its summary and returns
Finish_chords ==
    /\ pc = "loop"
    /\ cmd.fn \in {"generate_chord_triads_range", "generate_key_chords"}
    /\ pos = Len(queue)
    /\ FinishBatch
    /\ UNCHANGED <<cwd, original_dir>>

\* the locals of a function that has called another one
Frame == [cmd |-> cmd, queue |-> queue, pos |-> pos, created_count |-> created_count]

\* the running function was called by generate_all_key_chords
InAllKeys ==
    stack # <<>> /\ stack[Len(stack)].cmd.fn = "generate_all_key_chords"

\* generate_all_key_chords up to its loop over sorted(KEY_SIGNATURES.keys())
Start_generate_all_key_chords ==
    /\ pc = "ready"
    /\ cmd.fn = "generate_all_key_chords"
    /\ queue' = SortedKeys
    /\ pc' = "loop"
    /\ UNCHANGED <<stack, save_error_at, saves, run, first_files, cmd, cwd, original_dir,
                   dirs, files, pos, created_count, out, exc>>

\* the loop body calls generate_key_chords(key_signature, octaves)
Call_generate_key_chords ==
    /\ pc = "loop"
    /\ cmd.fn = "generate_all_key_chords"
    /\ pos < Len(queue)
    /\ stack' = Append(stack, Frame)
    /\ cmd' = [fn |-> "generate_key_chords", key_signature |-> queue[pos + 1],
               octaves |-> cmd.octaves]
    /\ pc' = "ready"
    /\ queue' = <<>>
    /\ pos' = 0
    /\ created_count' = 0
    /\ UNCHANGED <<save_error_at, saves, run, first_files, cwd, original_dir, dirs, files,
                   out, exc>>

\* generate_key_chords has returned (its result is stored in all_results,
\* counted here in created_count), or has raised: except Exception prints
\* "Failed to generate" and the loop goes on
Return_generate_key_chords ==
    /\ pc \in {"done", "raised"}
    /\ cmd.fn = "generate_key_chords"
    /\ InAllKeys
    /\ LET caller == stack[Len(stack)]
       IN  /\ cmd' = caller.cmd
           /\ queue' = caller.queue
           /\ pos' = caller.pos + 1
           /\ created_count' = IF pc = "done" THEN caller.created_count + 1
                               ELSE caller.created_count
    /\ stack' = SubSeq(stack, 1, Len(stack) - 1)
    /\ pc' = "loop"
    /\ exc' = "none"
    /\ out' = IF pc = "raised" THEN Append(out, Notice("Failed", cmd.key_signature, <<>>))
              ELSE out
    /\ UNCHANGED <<save_error_at, saves, run, first_files, cwd, original_dir, dirs, files>>

\* every key has been processed: the summary reports len(all_results)
Finish_generate_all_key_chords ==
    /\ pc = "loop"
    /\ cmd.fn = "generate_all_key_chords"
    /\ pos = Len(queue)
    /\ pc' = "done"
    /\ out' = Append(out, Notice("Summary", FormatNat(created_count), <<>>))
    /\ UNCHANGED <<stack, save_error_at, saves, run, first_files, cmd, cwd, original_dir,
                   dirs, files, queue, pos, created_count, exc>>

----------------------------------------------------------------------------
(* Runs of the table-driven scripts *)

\* a script up to its loop: the output directory is created, every entry is
\* parsed (a failure ends the script), the list is sorted, and the script
\* changes into the output directory
Start_script ==
    /\ pc = "ready"
    /\ cmd.fn = "script"
    /\ LET sc == Scripts[cmd.script]
           p == ParseTable(sc.parser, cmd.notes_data)
       IN  /\ dirs' = dirs \cup {cwd \o sc.output_dir}
           /\ IF p.exc # "none"
              THEN /\ pc' = "raised"
                   /\ exc' = p.exc
                   /\ UNCHANGED <<queue, cwd, original_dir>>
              ELSE /\ pc' = "loop"
                   /\ exc' = exc
                   /\ queue' = ScriptQueue(p.notes_with_midi)
                   /\ original_dir' = cwd
                   /\ cwd' = cwd \o sc.output_dir
    /\ UNCHANGED <<stack, save_error_at, saves, run, first_files, cmd, files, pos, created_count, out>>

\* one pass of a script's loop: nothing catches an exception of the body
Step_script ==
    /\ pc = "loop"
    /\ cmd.fn = "script"
    /\ pos < Len(queue)
    /\ LET r == CreateScriptFile(Scripts[cmd.script], queue[pos + 1])
       IN  IF r.exc # "none"
           THEN /\ pc' = "raised"
                /\ exc' = r.exc
                /\ UNCHANGED <<files, out, pos, saves>>
           ELSE /\ files' = Save(files, cwd, r.filename, r.track)
                /\ out' = Append(out, Created(r))
                /\ pos' = pos + 1
                /\ saves' = saves + 1
                /\ UNCHANGED <<pc, exc>>
    /\ UNCHANGED <<stack, save_error_at, run, first_files, cmd, cwd, original_dir, dirs, queue, created_count>>

\* the loop is over: the script changes back and reports len(notes_data)
Finish_script ==
    /\ pc = "loop"
    /\ cmd.fn = "script"
    /\ pos = Len(queue)
    /\ cwd' = original_dir
    /\ pc' = "done"
    /\ out' = Append(out, Notice("Summary", FormatNat(Len(cmd.notes_data)), <<>>))
    /\ UNCHANGED <<stack, save_error_at, saves, run, first_files, cmd, original_dir, dirs, files, queue, pos, created_count, exc>>

----------------------------------------------------------------------------
(* The main blocks of create_notes.py and create_chords.py *)

\* the functions the main blocks call inside try / except Exception
MainFns ==
    {"generate_ableton_range", "generate_standard_range", "generate_middle_c_range",
     "generate_chord_triads_range", "generate_key_chords", "generate_all_key_chords"}

Str_C_Major == <<"C", " ", "M", "a", "j", "o", "r">>

\* the mode chosen at "Enter choice (1-3): ": int(input().strip()), 1 on
\* ValueError
MenuMode(mode_text) ==
    LET m == ParseInt(Strip(mode_text))
    IN  IF m.ok THEN m.value ELSE 1

\* mutant: the key is passed on as entered
MenuKeyMutant(key_text) == Strip(key_text)

\* mode 2: the key entered, 'C Major' when empty or not in KEY_SIGNATURES
MenuKey(key_text) ==
    LET key_input == Strip(key_text)
    IN  IF key_input = <<>> \/ ~KnownKey(key_input) THEN Str_C_Major ELSE key_input

\* modes 2 and 3: int(octaves_input) if octaves_input else 2, 2 on ValueError
MenuOctaves(octaves_text) ==
    LET octaves_input == Strip(octaves_text)
        n == ParseInt(octaves_input)
    IN  IF octaves_input # <<>> /\ n.ok THEN n.value ELSE 2

\* the main block of create_chords.py reads its prompts and calls the
\* function of the chosen mode
Main_create_chords ==
    /\ pc = "ready"
    /\ cmd.fn = "create_chords_main"
    /\ LET mode == MenuMode(cmd.mode_text)
           key_input == Strip(cmd.key_text)
       IN  /\ cmd' = IF mode = 1
                     THEN [fn |-> "generate_chord_triads_range",
                           range |-> << <<"C", "3">>, <<"C", "5">> >>]
                     ELSE IF mode = 2
                     THEN [fn |-> "generate_key_chords",
                           key_signature |-> MenuKey(cmd.key_text),
                           octaves |-> MenuOctaves(cmd.octaves_text)]
                     ELSE IF mode = 3
                     THEN [fn |-> "generate_all_key_chords",
                           octaves |-> MenuOctaves(cmd.octaves_text)]
                     ELSE [fn |-> "generate_chord_triads_range",
                           range |-> << <<"C", "3">>, <<"C", "5">> >>]
           /\ out' = IF mode = 2 /\ key_input # <<>> /\ ~KnownKey(key_input)
                     THEN Append(out, Notice("Warning", key_input, <<>>))
                     ELSE IF mode \notin {1, 2, 3}
                     THEN Append(out, Notice("Invalid choice", FormatInt(mode), <<>>))
                     ELSE out
    /\ stack' = Append(stack, Frame)
    /\ UNCHANGED <<save_error_at, saves, run, first_files, pc, cwd, original_dir, dirs,
                   files, queue, pos, created_count, exc>>

\* except Exception as e: print(f"\nError: {e}"); the program ends
Main_except ==
    /\ pc = "raised"
    /\ cmd.fn \in MainFns
    /\ ~InAllKeys
    /\ pc' = "caught"
    /\ out' = Append(out, Notice("Error", <<>>, <<>>))
    /\ UNCHANGED <<stack, save_error_at, saves, run, first_files, cmd, cwd, original_dir, dirs, files, queue, pos,
                   created_count, exc>>

----------------------------------------------------------------------------
(* Running the program again *)

\* the same function, script or program is started a second time with the
\* same arguments and inputs from the same starting directory: a new
\* process, the disk as the first run left it
Run_again ==
    /\ run = 1
    /\ pc \in {"done", "raised", "caught"}
    /\ ~InAllKeys
    /\ cmd' = IF stack = <<>> THEN cmd ELSE stack[1].cmd
    /\ stack' = <<>>
    /\ saves' = 0
    /\ run' = 2
    /\ first_files' = files
    /\ pc' = "ready"
    /\ cwd' = <<>>
    /\ original_dir' = <<>>
    /\ queue' = <<>>
    /\ pos' = 0
    /\ created_count' = 0
    /\ out' = <<>>
    /\ exc' = "none"
    /\ UNCHANGED <<save_error_at, dirs, files>>

----------------------------------------------------------------------------

Next ==
    \/ Call_create_note_midi_ableton_final
    \/ Call_create_note_midi_standard
    \/ Call_create_chord_triad_midi
    \/ Start_generate_ableton_range
    \/ Step_generate_ableton_range
    \/ Start_generate_standard_range
    \/ Step_generate_standard_range
    \/ Finish_range
    \/ Start_generate_middle_c_range
    \/ Step_generate_middle_c_range
    \/ Finish_generate_middle_c_range
    \/ Start_generate_chord_triads_range
    \/ Step_generate_chord_triads_range
    \/ Start_generate_key_chords
    \/ Step_generate_key_chords
    \/ Finish_chords
    \/ Start_generate_all_key_chords
    \/ Call_generate_key_chords
    \/ Return_generate_key_chords
    \/ Finish_generate_all_key_chords
    \/ Start_script
    \/ Step_script
    \/ Finish_script
    \/ Main_create_chords
    \/ Main_except
    \/ Run_again

Spec == Init /\ [][Next]_vars

----------------------------------------------------------------------------
(* Reading tracks and files, for the properties below *)

\* the note numbers of the events of one type, in track order
NotesOfType(track, type) ==
    LET sel == SelectSeq(track, LAMBDA e : e.type = type)
    IN  [k \in 1..Len(sel) |-> sel[k].note]

NoteEvents(track) == SelectSeq(track, LAMBDA e : e.type \in {"note_on", "note_off"})

SingleNoteFns == {"create_note_midi_ableton_final", "create_note_midi_standard"}

Returned == pc \in {"done", "raised"}

\* the call has returned having saved exactly one file, whose note-ons and
\* note-offs carry exactly the note numbers ns, in that order
WroteNotes(ns) ==
    /\ pc = "done"
    /\ Cardinality(files) = 1
    /\ \A f \in files : /\ NotesOfType(f.track, "note_on") = ns
                        /\ NotesOfType(f.track, "note_off") = ns

\* the call has raised a ValueError for the range and no file exists
RejectedOutOfRange ==
    /\ pc = "raised"
    /\ exc = "ValueError: outside valid range"
    /\ files = {}

InMidiRange(n) == n >= 0 /\ n <= 127

----------------------------------------------------------------------------
(* C1: for every pitch class i and octave o whose number is in 0..127,     *)
(* create_note_midi_ableton_final writes note (o+2)*12+i and               *)
(* create_note_midi_standard writes (o+1)*12+i; the Ableton number of a    *)
(* name is 12 above its standard number.                                   *)
C1_NoteNumberFormula ==
    (Returned /\ cmd.fn \in SingleNoteFns) =>
    \A k \in 1..12, o \in (0 - MaxOctave)..MaxOctave :
        cmd.name = NOTE_NAMES[k] \o FormatInt(o)
        => LET i == k - 1
               std == (o + 1) * 12 + i
           IN  /\ (cmd.fn = "create_note_midi_ableton_final" /\ InMidiRange((o + 2) * 12 + i))
                    => (WroteNotes(<<(o + 2) * 12 + i>>) /\ WroteNotes(<<std + 12>>))
               /\ (cmd.fn = "create_note_midi_standard" /\ InMidiRange(std))
                    => WroteNotes(<<std>>)

\* C1 witness: 'A#-1' written under the Ableton convention as note 22
C1_Witness ==
    /\ cmd.fn = "create_note_midi_ableton_final"
    /\ cmd.name = <<"A", "#", "-", "1">>
    /\ WroteNotes(<<22>>)

(* C2: every note number the two single-note functions put in a note_on or *)
(* note_off lies in 0..127; a name whose number is below 0 or above 127    *)
(* makes the function raise before saving, and no file exists.             *)
C2_NoteRangeEnforced ==
    cmd.fn \in SingleNoteFns =>
        /\ \A f \in files : \A k \in 1..Len(NoteEvents(f.track)) :
               InMidiRange(NoteEvents(f.track)[k].note)
        /\ \A k \in 1..12, o \in (0 - MaxOctave)..MaxOctave :
               (/\ Returned
                /\ cmd.name = NOTE_NAMES[k] \o FormatInt(o)
                /\ ~InMidiRange((o + (IF cmd.fn = "create_note_midi_standard" THEN 1 ELSE 2)) * 12
                                  + (k - 1)))
               => RejectedOutOfRange

\* C2 witness: 'G#8' is MIDI 128 under the Ableton convention and is rejected
C2_Witness ==
    /\ cmd.fn = "create_note_midi_ableton_final"
    /\ cmd.name = <<"G", "#", "8">>
    /\ RejectedOutOfRange

(* C3: for each root r and triad type create_chord_triad_midi emits        *)
(* exactly r plus the fixed offsets: Major 0,4,7; Minor 0,3,7; Diminished  *)
(* 0,3,6; Augmented 0,4,8; for 'C3' these are 60,64,67 / 60,63,67 /        *)
(* 60,63,66 / 60,64,68.                                                    *)
C3_Offsets == << <<4, 7>>, <<3, 7>>, <<3, 6>>, <<4, 8>> >>

C3_TriadPitches ==
    (cmd.fn = "create_chord_triad_midi" /\ pc = "done") =>
        /\ \A k \in 1..12, o \in (0 - MaxOctave)..MaxOctave, t \in 1..4 :
               (cmd.name = NOTE_NAMES[k] \o FormatInt(o) /\ cmd.triad_type = triad_types[t])
               => LET r == (o + 2) * 12 + (k - 1)
                  IN  WroteNotes(<<r, r + C3_Offsets[t][1], r + C3_Offsets[t][2]>>)
        /\ cmd.name = <<"C", "3">> =>
               /\ cmd.triad_type = Str_Major => WroteNotes(<<60, 64, 67>>)
               /\ cmd.triad_type = Str_Minor => WroteNotes(<<60, 63, 67>>)
               /\ cmd.triad_type = Str_Diminished => WroteNotes(<<60, 63, 66>>)
               /\ cmd.triad_type = Str_Augmented => WroteNotes(<<60, 64, 68>>)

\* C3 witness: the diminished triad on C3 has been written as 60, 63, 66
C3_Witness ==
    /\ cmd.fn = "create_chord_triad_midi"
    /\ cmd.name = <<"C", "3">>
    /\ cmd.triad_type = Str_Diminished
    /\ WroteNotes(<<60, 63, 66>>)

(* C4: create_chord_triad_midi never writes a pitch outside 0..127; when   *)
(* the root, third or fifth is out of range it raises and saves no file.   *)
C4_ChordRangeEnforced ==
    cmd.fn = "create_chord_triad_midi" =>
        /\ \A f \in files : \A k \in 1..Len(NoteEvents(f.track)) :
               InMidiRange(NoteEvents(f.track)[k].note)
        /\ \A k \in 1..12, o \in (0 - MaxOctave)..MaxOctave, t \in 1..4 :
               (/\ Returned
                /\ cmd.name = NOTE_NAMES[k] \o FormatInt(o)
                /\ cmd.triad_type = triad_types[t]
                /\ LET r == (o + 2) * 12 + (k - 1)
                   IN  \/ ~InMidiRange(r)
                       \/ ~InMidiRange(r + C3_Offsets[t][1])
                       \/ ~InMidiRange(r + C3_Offsets[t][2]))
               => RejectedOutOfRange

\* C4 witness: the root C#8 (121) is in range, its perfect fifth (128) is not
C4_Witness ==
    /\ cmd.fn = "create_chord_triad_midi"
    /\ cmd.name = <<"C", "#", "8">>
    /\ cmd.triad_type = Str_Major
    /\ RejectedOutOfRange

----------------------------------------------------------------------------
(* Reading files and batches *)

\* the number a file name starts with
FileIndex(f) == ParseNat(SubSeq(f.name, 1, DigitRun(f.name, 1)))

\* the first note switched on in a file: the note of a single-note file,
\* the root of a chord file
FirstNote(f) == NotesOfType(f.track, "note_on")[1]

\* the name a single-file call has printed for the note it wrote
ShownName == out[Len(out)].shown

(* C5: in create_notes.py the display names round-trip: for every MIDI     *)
(* number m in 0..127 the Ableton name create_note_midi_standard computes  *)
(* for m (octave m div 12 - 2) is resolved to m by                         *)
(* create_note_midi_ableton_final, and the standard name                   *)
(* create_note_midi_ableton_final computes for m (octave m div 12 - 1) is  *)
(* resolved to m by create_note_midi_standard.                             *)
C5_NotesRoundTrip ==
    (pc = "done" /\ cmd.fn \in SingleNoteFns) =>
        \A f \in files :
            LET m == FirstNote(f)
                shift == IF cmd.fn = "create_note_midi_standard" THEN 2 ELSE 1
                back == IF cmd.fn = "create_note_midi_standard"
                        THEN CreateNoteAbleton(ShownName, cmd.file_number,
                                               cmd.duration_ticks, 120)
                        ELSE CreateNoteStandard(ShownName, cmd.file_number,
                                                cmd.duration_ticks, 120)
            IN  /\ InMidiRange(m)
                /\ ShownName = NOTE_NAMES[(m % 12) + 1] \o FormatInt((m \div 12) - shift)
                /\ back.exc = "none"
                /\ NotesOfType(back.track, "note_on") = <<m>>
                /\ NotesOfType(back.track, "note_off") = <<m>>

\* C5 witness: create_note_midi_standard wrote MIDI 0 for 'C-1' and printed
\* the Ableton name 'C-2', which create_note_midi_ableton_final resolves to 0
C5_Witness ==
    /\ pc = "done"
    /\ cmd.fn = "create_note_midi_standard"
    /\ cmd.name = <<"C", "-", "1">>
    /\ WroteNotes(<<0>>)
    /\ ShownName = <<"C", "-", "2">>
    /\ CreateNoteAbleton(ShownName, 1, 1920, 120).midi = 0

(* C6: in create_chords.py the Ableton name round-trips: for every MIDI    *)
(* number m in 0..127 the name midi_to_ableton_notation(m), resolved with  *)
(* the root formula of create_chord_triad_midi, (octave+2)*12 + index,     *)
(* gives m; midi_to_ableton_notation(60) is 'C3' and of 72 is 'C4'.        *)
C6_ChordsRoundTrip ==
    (pc = "done" /\ cmd.fn = "create_chord_triad_midi") =>
        \A f \in files :
            LET m == FirstNote(f)
                name == midi_to_ableton_notation(m)
                parsed == NoteMatch(name)
            IN  /\ ShownName = name
                /\ parsed.ok
                /\ AbletonMidi(parsed.octave, NoteIndex(parsed.note_name)) = m
                /\ m = 60 => name = <<"C", "3">>
                /\ m = 72 => name = <<"C", "4">>

\* C6 witness: the chord on 'C3' has root 60, which the function names 'C4';
\* the root formula resolves 'C4' to 72
C6_Witness ==
    /\ pc = "done"
    /\ cmd.fn = "create_chord_triad_midi"
    /\ cmd.name = <<"C", "3">>
    /\ \E f \in files : FirstNote(f) = 60
    /\ ShownName = <<"C", "4">>
    /\ CreateChordTriad(ShownName, cmd.triad_type, 1, NOTE_DURATION_TICKS, BPM).midi = 72

\* track name, tempo, time signature, the note-ons at delta 0, the note-offs
\* (the first after duration, the others at delta 0), end of track
TrackInOrder(track, duration) ==
    LET n == Len(track)
        k == (n - 4) \div 2
    IN  /\ n >= 6
        /\ n = 4 + 2 * k
        /\ track[1].type = "track_name"
        /\ track[2].type = "set_tempo"
        /\ track[3].type = "time_signature"
        /\ \A j \in 1..k : track[3 + j].type = "note_on" /\ track[3 + j].time = 0
        /\ \A j \in 1..k : /\ track[3 + k + j].type = "note_off"
                           /\ track[3 + k + j].time = (IF j = 1 THEN duration ELSE 0)
        /\ track[n].type = "end_of_track"

\* the functions C7 is about, called directly or by the chord batches
C7_Fns ==
    SingleNoteFns \cup {"create_chord_triad_midi", "generate_chord_triads_range",
                        "generate_key_chords", "script"}

C7_Duration ==
    IF cmd.fn = "script" THEN Scripts[cmd.script].note_duration
    ELSE IF cmd.fn \in {"generate_chord_triads_range", "generate_key_chords"}
    THEN NOTE_DURATION_TICKS
    ELSE cmd.duration_ticks

(* C7: every track built by create_note_midi_ableton_final,                *)
(* create_note_midi_standard, create_chord_triad_midi and the table-driven *)
(* scripts is: track name, tempo, time signature, all note-ons (delta 0),  *)
(* all note-offs (the first at delta = duration, the others 0), and        *)
(* end-of-track as the last event.                                         *)
C7_EventOrder ==
    cmd.fn \in C7_Fns => \A f \in files : TrackInOrder(f.track, C7_Duration)

\* C7 witness: a file of the subcraft script whose note events are
\* note_on, note_off, note_on, note_off
C7_Witness ==
    /\ cmd.fn = "script"
    /\ Scripts[cmd.script].script = "subcraft"
    /\ cmd.notes_data = Table_subcraft
    /\ \E f \in files :
           /\ f.name = <<"0", "1", " ", "L", "o", "o", "p", "_", "1", "_", "C", "2", ".", "m", "i", "d">>
           /\ FirstNote(f) = 48
           /\ [k \in 1..4 |-> NoteEvents(f.track)[k].type]
                  = <<"note_on", "note_off", "note_on", "note_off">>

\* the number of events of one type for pitch p among the first k events
CountOf(track, k, type, p) ==
    Cardinality({j \in 1..k : track[j].type = type /\ track[j].note = p})

\* the other events carry no pitch, so the prefixes of the note events are
\* the prefixes that matter
Paired(track) ==
    LET ev == NoteEvents(track)
    IN  \A p \in {ev[j].note : j \in 1..Len(ev)} :
            /\ \A k \in 1..Len(ev) :
                   CountOf(ev, k, "note_off", p) <= CountOf(ev, k, "note_on", p)
            /\ CountOf(ev, Len(ev), "note_off", p) = CountOf(ev, Len(ev), "note_on", p)

(* C8: in every track written by any generator, note-ons and note-offs are *)
(* paired per pitch: in every prefix of the track the note-offs of a pitch *)
(* do not outnumber its note-ons, and over the whole track the two counts  *)
(* are equal.                                                              *)
C8_NotesPaired ==
    \A f \in files : Paired(f.track)

\* C8 witness: the subcraft script has written a file that switches its
\* pitch on and off twice
C8_Witness ==
    /\ cmd.fn = "script"
    /\ Scripts[cmd.script].script = "subcraft"
    /\ pc = "done"
    /\ \E f \in files :
           /\ Len(NoteEvents(f.track)) = 4
           /\ CountOf(f.track, Len(f.track), "note_on", FirstNote(f)) = 2
           /\ Paired(f.track)

\* the runs C9 is about
C9_Fns ==
    {"script", "generate_ableton_range", "generate_standard_range",
     "generate_middle_c_range", "generate_chord_triads_range"}

(* C9: in the table-driven scripts and in generate_ableton_range,          *)
(* generate_standard_range, generate_middle_c_range and                    *)
(* generate_chord_triads_range the file indices follow ascending pitch:    *)
(* of two entries of a run the one with the lower MIDI number has the      *)
(* lower index, in whatever order the table lists them, and the indices    *)
(* start at 1.  (Along the numbered entries the MIDI numbers never fall    *)
(* and the indices rise, which gives the order of any two entries.)        *)
C9_IndicesFollowPitch ==
    (cmd.fn \in C9_Fns /\ pc \in {"loop", "done", "raised"}) =>
        /\ \A a \in 1..(Len(queue) - 1) :
               /\ queue[a].midi <= queue[a + 1].midi
               /\ queue[a].file_number < queue[a + 1].file_number
        /\ Len(queue) > 0 =>
               /\ queue[1].file_number = 1
               /\ \A a \in 1..Len(queue) : queue[1].midi <= queue[a].midi
        /\ \A f \in files : FileIndex(f) >= 1
        /\ Returned =>
               LET written == {<<FirstNote(f), FileIndex(f)>> : f \in files}
               IN  \A f, g \in written : f[1] < g[1] => f[2] < g[2]

\* C9 witness: a script given A#2 before C#1 has written C#1 (37) as file 01
\* and A#2 (58) as file 02
C9_Witness ==
    /\ cmd.fn = "script"
    /\ pc = "done"
    /\ Len(cmd.notes_data) = 2
    /\ cmd.notes_data[1].file_note = <<"A", "#", "2">>
    /\ cmd.notes_data[2].file_note = <<"C", "#", "1">>
    /\ \E f, g \in files :
           /\ FirstNote(f) = 37 /\ f.name = <<"0", "1", " ", "I", "n", "t", "r", "o", ".", "m", "i", "d">>
           /\ FirstNote(g) = 58 /\ FileIndex(g) = 2

(* C10 as stated: generate_key_chords numbers its chord files in ascending *)
(* order of root pitch: of two chords of one run the one with the lower    *)
(* root MIDI number has the lower file index, for every key signature.     *)
C10_AscendingRootPitch ==
    (cmd.fn = "generate_key_chords" /\ pc \in {"loop", "done"}) =>
        /\ \A a, b \in 1..Len(queue) :
               queue[a].midi < queue[b].midi => queue[a].file_number < queue[b].file_number
        /\ \A f, g \in files :
               FirstNote(f) < FirstNote(g) => FileIndex(f) < FileIndex(g)

\* the keys whose chord roots, in chord-list order, do not wrap past B
C10_AscendingKeys ==
    { <<"C", " ", "M", "a", "j", "o", "r">>, <<"C", " ", "M", "i", "n", "o", "r">>,
      <<"C", "#", " ", "M", "i", "n", "o", "r">> }

\* the files in the directory generate_key_chords writes to
KeyFiles == {f \in files : f.dir = cwd \o KeyDir(cmd.key_signature)}

(* C10: generate_key_chords numbers its chord files octave by octave from  *)
(* octave 3 and, within an octave, in the order of the key's chord list:   *)
(* the chord of degree d in octave o has index Len(chords)*(o-3)+d and     *)
(* root (o+2)*12 + pitch class of its root.  The indices ascend with the   *)
(* root pitch exactly for C Major, C Minor and C# Minor.                   *)
C10_KeyChordOrder ==
    (cmd.fn = "generate_key_chords" /\ pc \in {"loop", "done"}) =>
        LET chords == KeyData(cmd.key_signature).chords
            n == Len(chords)
        IN  /\ Len(queue) = IF cmd.octaves > 0 THEN n * cmd.octaves ELSE 0
            /\ \A a \in 1..Len(queue) :
                   LET o == 3 + (a - 1) \div n
                       c == ParseChord(chords[((a - 1) % n) + 1])
                   IN  /\ queue[a].file_number = a
                       /\ queue[a].display_name = c.root_note_name \o FormatInt(o)
                       /\ queue[a].label = c.triad_type
                       /\ queue[a].midi = (o + 2) * 12 + NoteIndex(c.root_note_name)
            /\ \A f \in KeyFiles :
                   /\ FileIndex(f) \in 1..Len(queue)
                   /\ FirstNote(f) = queue[FileIndex(f)].midi
            /\ cmd.octaves > 0 =>
                   (cmd.key_signature \in C10_AscendingKeys
                    <=> \A a, b \in 1..Len(queue) :
                            queue[a].midi < queue[b].midi
                            => queue[a].file_number < queue[b].file_number)

\* C10 witness: for D Major the file of D3 (62) has index 1 and the file of
\* C#3 (61) has index 7
C10_Witness ==
    /\ cmd.fn = "generate_key_chords"
    /\ cmd.key_signature = <<"D", " ", "M", "a", "j", "o", "r">>
    /\ pc = "done"
    /\ \E f, g \in files :
           /\ FileIndex(f) = 1 /\ FirstNote(f) = 62
           /\ FileIndex(g) = 7 /\ FirstNote(g) = 61

\* the functions whose loop catches the ValueError of one entry
C11_Fns ==
    {"generate_ableton_range", "generate_standard_range",
     "generate_chord_triads_range", "generate_key_chords"}

\* the pitches an entry asks for: its note, or the three tones of its chord
C11_Tones(e) ==
    IF e.label = <<>> THEN {e.midi}
    ELSE LET t == CHOOSE t \in 1..4 : triad_types[t] = e.label
         IN  {e.midi, e.midi + C3_Offsets[t][1], e.midi + C3_Offsets[t][2]}

C11_Valid(e) == \A n \in C11_Tones(e) : InMidiRange(n)

\* what the skip notice of an entry names
C11_Subject(e) ==
    IF e.label = <<>> THEN e.display_name ELSE e.display_name \o <<" ">> \o e.label

(* C11: in generate_ableton_range, generate_standard_range,                *)
(* generate_chord_triads_range and generate_key_chords an entry whose      *)
(* pitch or chord tone is outside 0..127 is skipped with a printed notice  *)
(* and every valid entry is still written: among the entries processed so  *)
(* far the files written are exactly the valid ones.                       *)
C11_SkipAndContinue ==
    (cmd.fn \in C11_Fns /\ run = 1 /\ ~InAllKeys /\ pc \in {"loop", "done"}) =>
        LET seen == {queue[k] : k \in 1..pos}
            valid == {e \in seen : C11_Valid(e)}
            skips == {k \in 1..Len(out) : out[k].kind = "Skipping"}
        IN  /\ pc = "done" => pos = Len(queue)
            /\ {FileIndex(f) : f \in files} = {e.file_number : e \in valid}
            /\ Cardinality(files) = Cardinality(valid)
            /\ created_count = Cardinality(valid)
            /\ \A f \in files : FirstNote(f) = queue[FileIndex(f)].midi
            /\ \A e \in seen \ valid : \E k \in skips : out[k].subject = C11_Subject(e)
            /\ Cardinality(skips) = Cardinality(seen \ valid)

\* C11 witness: the chord range C8..B8 has run to its end; C#8 Major (fifth
\* 128) was skipped with a notice, C#8 Diminished (121, 124, 127), two
\* entries later, was written as file 007
C11_Witness ==
    /\ cmd.fn = "generate_chord_triads_range"
    /\ cmd.range = << <<"C", "8">>, <<"B", "8">> >>
    /\ pc = "done"
    /\ \E k \in 1..Len(out) :
           /\ out[k].kind = "Skipping"
           /\ out[k].subject = <<"C", "#", "8", " ", "M", "a", "j", "o", "r">>
    /\ ~\E f \in files : FileIndex(f) = 5
    /\ \E f \in files : FileIndex(f) = 7 /\ NotesOfType(f.track, "note_on") = <<121, 124, 127>>

\* a table entry the script's own parser accepts and whose number is in 0..127
C12_Valid(sc, entry) ==
    LET p == ParseEntry(sc.parser, entry.file_note)
    IN  p.exc = "none" /\ InMidiRange(AbletonMidi(p.octave, p.note_index))

\* a file has been written for the table entry: its track carries the
\* entry's track name and its note is the entry's number
C12_Written(sc, entry) ==
    LET p == ParseEntry(sc.parser, entry.file_note)
    IN  \E f \in files : /\ f.track[1].name = entry.track_name
                         /\ FirstNote(f) = AbletonMidi(p.octave, p.note_index)

(* C12: in the table-driven scripts an entry of notes_data whose note name *)
(* fails to parse or resolves outside 0..127 is skipped with a notice and  *)
(* every other entry of the table is still written to a file.              *)
C12_ScriptsSkipAndContinue ==
    (cmd.fn = "script" /\ Returned) =>
        LET sc == Scripts[cmd.script]
        IN  /\ pc = "done"
            /\ \A k \in 1..Len(cmd.notes_data) :
                   IF C12_Valid(sc, cmd.notes_data[k])
                   THEN C12_Written(sc, cmd.notes_data[k])
                   ELSE \E j \in 1..Len(out) : out[j].kind = "Skipping"

\* C12 witness: beatmaker given A#2 and C-1 has ended with the ValueError of
\* note_names.index('C-'); no file exists, none for the valid A#2 either
C12_Witness ==
    /\ cmd.fn = "script"
    /\ Scripts[cmd.script].script = "beatmaker"
    /\ Len(cmd.notes_data) = 2
    /\ cmd.notes_data[1].file_note = <<"A", "#", "2">>
    /\ cmd.notes_data[2].file_note = <<"C", "-", "1">>
    /\ C12_Valid(Scripts[cmd.script], cmd.notes_data[1])
    /\ pc = "raised"
    /\ exc = "ValueError: is not in list"
    /\ files = {}

\* the three functions that take one note name
C13_Fns == SingleNoteFns \cup {"create_chord_triad_midi"}

\* s is, as a whole, a letter A-G, an optional '#', and an optionally
\* negative decimal integer
C13_WholeName(s) ==
    \E l \in 1..2 :
        /\ Len(s) > l
        /\ s[1] \in Letters
        /\ l = 2 => s[2] = "#"
        /\ LET rest == SubSeq(s, l + 1, Len(s))
               digits == IF rest[1] = "-" THEN Tail(rest) ELSE rest
           IN  /\ digits # <<>>
               /\ \A k \in 1..Len(digits) : digits[k] \in Digits

(* C13: create_note_midi_ableton_final, create_note_midi_standard and      *)
(* create_chord_triad_midi reject every string that is not, as a whole,    *)
(* one letter A-G, an optional '#', and an optionally negative integer:    *)
(* the call raises the invalid-format error and no file is written.        *)
C13_GrammarRejects ==
    (cmd.fn \in C13_Fns /\ Returned /\ ~C13_WholeName(cmd.name)) =>
        /\ pc = "raised"
        /\ exc = "ValueError: Invalid note name format"
        /\ files = {}

\* C13 witness: 'C3x' has been accepted by create_note_midi_ableton_final and
\* written as note 60 to '01 C3x.mid'
C13_Witness ==
    /\ cmd.fn = "create_note_midi_ableton_final"
    /\ cmd.name = <<"C", "3", "x">>
    /\ cmd.file_number = 1
    /\ ~C13_WholeName(cmd.name)
    /\ WroteNotes(<<60>>)
    /\ \E f \in files : f.name = <<"0", "1", " ", "C", "3", "x", ".", "m", "i", "d">>

\* the functions that write chord files, and those that write note files
\* under the standard convention
C14_ChordFns ==
    {"create_chord_triad_midi", "generate_chord_triads_range", "generate_key_chords"}

C14_StandardFns == {"create_note_midi_standard", "generate_standard_range"}

\* the label of the entry a file was written for: the track name in the
\* scripts, root and triad type for a chord, the note name otherwise
C14_Labels ==
    IF cmd.fn = "script" THEN {queue[k].label : k \in 1..Len(queue)}
    ELSE IF cmd.fn = "create_chord_triad_midi" THEN {cmd.name \o <<" ">> \o cmd.triad_type}
    ELSE IF cmd.fn \in C14_ChordFns
    THEN {queue[k].display_name \o <<" ">> \o queue[k].label : k \in 1..Len(queue)}
    ELSE IF cmd.fn \in SingleNoteFns THEN {cmd.name}
    ELSE {queue[k].display_name : k \in 1..Len(queue)}

\* the part of a file name between the first space and the suffix '.mid'
C14_LabelPart(name) == SubSeq(name, FirstSpace(name) + 1, Len(name) - 4)

C14_IndexPart(name) == SubSeq(name, 1, FirstSpace(name) - 1)

(* C14 as stated: every file name is the zero-padded index, one space, the *)
(* entry's label with every space replaced by an underscore, and '.mid';   *)
(* the label part of the name contains no space.                           *)
C14_UnderscoredNames ==
    \A f \in files :
        /\ FirstSpace(f.name) > 2
        /\ \A k \in 1..Len(C14_IndexPart(f.name)) : C14_IndexPart(f.name)[k] \in Digits
        /\ SubSeq(f.name, Len(f.name) - 3, Len(f.name)) = Str_mid
        /\ \E l \in C14_Labels : C14_LabelPart(f.name) = ReplaceChar(l, " ", "_")
        /\ \A k \in 1..Len(C14_LabelPart(f.name)) : C14_LabelPart(f.name)[k] # " "

\* the number and the label of the entries of the run
C14_Entries ==
    IF cmd.fn \in C13_Fns
    THEN {[file_number |-> cmd.file_number,
           label |-> IF cmd.fn = "create_chord_triad_midi"
                     THEN cmd.name \o <<" ">> \o cmd.triad_type ELSE cmd.name]}
    ELSE {[file_number |-> queue[k].file_number,
           label |-> IF cmd.fn = "script" THEN queue[k].label
                     ELSE IF cmd.fn \in C14_ChordFns
                     THEN queue[k].display_name \o <<" ">> \o queue[k].label
                     ELSE queue[k].display_name] : k \in 1..Len(queue)}

\* the decimal digits of n behind as many zeros as w digits need
C14_Padded(n, w) ==
    LET d == FormatNat(n)
    IN  [k \in 1..(IF Len(d) < w THEN w - Len(d) ELSE 0) |-> "0"] \o d

(* C14: a script names its file by the index padded to 2 digits, a space,  *)
(* the track name with spaces replaced by underscores, and '.mid'.  The    *)
(* create_notes.py functions use the index padded to 2 digits, a space and *)
(* the note name as given, followed by '.mid' (Ableton functions) or       *)
(* '_standard.mid' (standard functions).  create_chord_triad_midi uses the *)
(* index padded to 3 digits, a space, and 'root type.mid' with the space   *)
(* between root and triad type kept.  (Stated for the run that starts on   *)
(* an empty disk; a second run leaves the same files.)                     *)
C14_FileNames ==
    (run = 1 /\ cmd.fn \in C13_Fns \cup C11_Fns \cup {"generate_middle_c_range", "script"}
             /\ ~InAllKeys) =>
    \A f \in files :
        \E e \in C14_Entries :
            f.name =
                IF cmd.fn = "script"
                THEN C14_Padded(e.file_number, 2) \o <<" ">>
                         \o ReplaceChar(e.label, " ", "_") \o Str_mid
                ELSE IF cmd.fn \in C14_ChordFns
                THEN C14_Padded(e.file_number, 3) \o <<" ">> \o e.label \o Str_mid
                ELSE IF cmd.fn \in C14_StandardFns
                THEN C14_Padded(e.file_number, 2) \o <<" ">> \o e.label \o Str_standard_mid
                ELSE C14_Padded(e.file_number, 2) \o <<" ">> \o e.label \o Str_mid

\* C14 witness: create_chord_triad_midi('C3', 'Major', 1) has written
\* '001 C3 Major.mid', whose label part holds a space
C14_Witness ==
    /\ cmd.fn = "create_chord_triad_midi"
    /\ pc = "done"
    /\ \E f \in files :
           /\ f.name = <<"0", "0", "1", " ", "C", "3", " ", "M", "a", "j", "o", "r",
                         ".", "m", "i", "d">>
           /\ C14_LabelPart(f.name) = <<"C", "3", " ", "M", "a", "j", "o", "r">>

C15_Names ==
    << <<"C", "#", "1">>,
       <<"D", "#", "1">>,
       <<"F", "#", "1">>,
       <<"G", "#", "1">>,
       <<"A", "#", "1">>,
       <<"C", "#", "2">>,
       <<"D", "#", "2">>,
       <<"F", "#", "2">>,
       <<"G", "#", "2">>,
       <<"A", "#", "2">> >>

C15_Numbers == <<37, 39, 42, 44, 46, 49, 51, 54, 56, 58>>

(* C15: beatmaker_notes.py on its own 10-entry table (C#1, D#1, F#1, G#1,  *)
(* A#1, C#2, D#2, F#2, G#2, A#2) writes exactly 10 files with indices 01   *)
(* to 10 in ascending pitch order; file k holds exactly one note-on and    *)
(* one note-off, both at the k-th of 37, 39, 42, 44, 46, 49, 51, 54, 56,   *)
(* 58.                                                                     *)
C15_BeatmakerFiles ==
    (/\ cmd.fn = "script"
     /\ Scripts[cmd.script].script = "beatmaker"
     /\ cmd.notes_data = Table_beatmaker
     /\ run = 1
     /\ pc # "ready") =>
        /\ [k \in 1..Len(Table_beatmaker) |-> Table_beatmaker[k].file_note] = C15_Names
        /\ pc \in {"loop", "done"}
        /\ pc = "done" => pos = 10
        /\ Cardinality(files) = pos
        /\ \A k \in 1..pos :
               \E f \in files :
                   /\ SubSeq(f.name, 1, 3) = C14_Padded(k, 2) \o <<" ">>
                   /\ NotesOfType(f.track, "note_on") = <<C15_Numbers[k]>>
                   /\ NotesOfType(f.track, "note_off") = <<C15_Numbers[k]>>

\* C15 witness: the run is over with 10 files; the one numbered 10 holds 58
C15_Witness ==
    /\ cmd.fn = "script"
    /\ Scripts[cmd.script].script = "beatmaker"
    /\ cmd.notes_data = Table_beatmaker
    /\ pc = "done"
    /\ Cardinality(files) = 10
    /\ \E f \in files : SubSeq(f.name, 1, 3) = <<"1", "0", " ">> /\ FirstNote(f) = 58

(* C16: each generator run is idempotent: run a second time from the same  *)
(* starting directory with the same inputs, it overwrites each file with   *)
(* identical events and adds or removes no file, so the files on disk stay *)
(* exactly those the first run left, and it ends as the first run ended.   *)
C16_Idempotent ==
    run = 2 =>
        /\ \A f \in files : \E g \in first_files :
               f.dir = g.dir /\ f.name = g.name /\ f.track = g.track
        /\ \A g \in first_files : \E f \in files :
               f.dir = g.dir /\ f.name = g.name /\ f.track = g.track
        /\ Cardinality(files) = Cardinality(first_files)

\* C16 witness: the second run of generate_key_chords for D Major over two
\* octaves is over; it has reported 14 files created and the disk holds the
\* 14 files of the first run
C16_Witness ==
    /\ run = 2
    /\ cmd.fn = "generate_key_chords"
    /\ cmd.key_signature = <<"D", " ", "M", "a", "j", "o", "r">>
    /\ cmd.octaves = 2
    /\ pc = "done"
    /\ created_count = 14
    /\ Cardinality(files) = 14
    /\ files = first_files

\* the range functions that parse a start and an end note
C17_Fns ==
    {"generate_ableton_range", "generate_standard_range", "generate_chord_triads_range"}

C18_OffTable(s) ==
    /\ Len(s) >= 3
    /\ s[1] \in {"E", "B"}
    /\ s[2] = "#"
    /\ LET digits == IF s[3] = "-" THEN SubSeq(s, 4, Len(s)) ELSE SubSeq(s, 3, Len(s))
       IN  digits # <<>> /\ \A k \in 1..Len(digits) : digits[k] \in Digits

(* C18: a name that matches the grammar but whose pitch class is not one   *)
(* of the 12 table names (E# or B# with any octave) is rejected:           *)
(* create_note_midi_ableton_final, create_note_midi_standard and           *)
(* create_chord_triad_midi raise the invalid-note-name error for it and    *)
(* write no file.                                                          *)
C18_OffTableRejected ==
    (cmd.fn \in C13_Fns /\ C18_OffTable(cmd.name) /\ pc # "ready") =>
        /\ pc = "raised"
        /\ exc = "ValueError: Invalid note name"
        /\ files = {}
        /\ out = <<>>

\* C18 witness: create_chord_triad_midi('E#3', 'Major') has raised the
\* invalid-note-name error and no file exists
C18_Witness ==
    /\ cmd.fn = "create_chord_triad_midi"
    /\ cmd.name = <<"E", "#", "3">>
    /\ cmd.triad_type = Str_Major
    /\ C18_OffTable(cmd.name)
    /\ pc = "raised"
    /\ exc = "ValueError: Invalid note name"
    /\ files = {}

\* the 24 key names: each of the 12 note names with ' Major' and ' Minor'
C19_KeyNames ==
    {NOTE_NAMES[k] \o t : k \in 1..12,
                          t \in {<<" ", "M", "a", "j", "o", "r">>, <<" ", "M", "i", "n", "o", "r">>}}

(* C19: generate_key_chords called with a key signature that is not a key  *)
(* of KEY_SIGNATURES raises the invalid-key error before it creates any    *)
(* directory or writes any file: the file system is left unchanged.        *)
C19_InvalidKeyRejected ==
    /\ C19_KeyNames = {KEY_SIGNATURES[k].key : k \in 1..Len(KEY_SIGNATURES)}
    /\ (cmd.fn = "generate_key_chords" /\ cmd.key_signature \notin C19_KeyNames
        /\ pc # "ready") =>
           /\ pc \in {"raised", "caught"}
           /\ exc = "ValueError: Invalid key signature"
           /\ dirs = {<<>>}
           /\ files = {}
           /\ queue = <<>>

\* C19 witness: generate_key_chords('c major', 2) has raised the invalid-key
\* error; only the starting directory exists
C19_Witness ==
    /\ cmd.fn = "generate_key_chords"
    /\ cmd.key_signature = <<"c", " ", "m", "a", "j", "o", "r">>
    /\ cmd.octaves = 2
    /\ pc = "raised"
    /\ exc = "ValueError: Invalid key signature"
    /\ dirs = {<<>>}
    /\ files = {}

\* the sharp name of a root: a flat name is replaced, any other name kept
C20_Sharp(root) ==
    IF root = <<"A", "b">> THEN <<"G", "#">>
    ELSE IF root = <<"B", "b">> THEN <<"A", "#">>
    ELSE IF root = <<"D", "b">> THEN <<"C", "#">>
    ELSE IF root = <<"E", "b">> THEN <<"D", "#">>
    ELSE IF root = <<"G", "b">> THEN <<"F", "#">>
    ELSE root

\* a chord name read as the words before and after its space
C20_Root(chord) == SubSeq(chord, 1, FirstSpace(chord) - 1)

C20_Type(chord) == SubSeq(chord, FirstSpace(chord) + 1, Len(chord))

C20_Types == {Str_Major, Str_Minor, Str_Diminished}

(* C20: in generate_key_chords each of the 7 chords of each of the 24 keys *)
(* parses to a root among the 12 sharp-based names and a triad type among  *)
(* Major, Minor, Diminished, the flat roots mapped Ab to G#, Bb to A#, Db  *)
(* to C#, Eb to D#, Gb to F#; a flat-named chord gets the root MIDI number *)
(* and the triad type of its sharp-named equivalent in the same octave.    *)
C20_FlatsMapped ==
    (cmd.fn = "generate_key_chords" /\ cmd.key_signature \in C19_KeyNames /\ pc # "ready") =>
        LET chords == KeyData(cmd.key_signature).chords
        IN  /\ Len(KEY_SIGNATURES) = 24
            /\ Len(chords) = 7
            /\ exc \in {"none", "OSError"}
            /\ \A j \in 1..7 :
                   LET c == ParseChord(chords[j])
                       sharp == C20_Sharp(C20_Root(chords[j])) \o <<" ">> \o C20_Type(chords[j])
                   IN  /\ \E k \in 1..12 : NOTE_NAMES[k] = c.root_note_name
                       /\ c.root_note_name = C20_Sharp(C20_Root(chords[j]))
                       /\ c.triad_type = C20_Type(chords[j])
                       /\ c.triad_type \in C20_Types
                       /\ ParseChord(sharp) = c
            /\ \A a \in 1..Len(queue) :
                   LET chord == chords[((a - 1) % 7) + 1]
                       o == 3 + (a - 1) \div 7
                       k == CHOOSE k \in 1..12 : NOTE_NAMES[k] = C20_Sharp(C20_Root(chord))
                   IN  /\ queue[a].display_name = NOTE_NAMES[k] \o FormatInt(o)
                       /\ queue[a].label = C20_Type(chord)
                       /\ queue[a].midi = (o + 2) * 12 + (k - 1)
            /\ \A f \in KeyFiles :
                   /\ FirstNote(f) = queue[FileIndex(f)].midi
                   /\ f.track[1].name = queue[FileIndex(f)].display_name \o <<" ">>
                                            \o queue[FileIndex(f)].label

\* C20 witness: in C Minor the third chord, 'Eb Major', has been written in
\* octave 3 as '003 D#3 Major.mid' with the notes 63, 67, 70
C20_Witness ==
    /\ cmd.fn = "generate_key_chords"
    /\ cmd.key_signature = <<"C", " ", "M", "i", "n", "o", "r">>
    /\ KeyData(cmd.key_signature).chords[3] = <<"E", "b", " ", "M", "a", "j", "o", "r">>
    /\ pc = "done"
    /\ \E f \in files :
           /\ f.name = <<"0", "0", "3", " ", "D", "#", "3", " ", "M", "a", "j", "o", "r",
                         ".", "m", "i", "d">>
           /\ NotesOfType(f.track, "note_on") = <<63, 67, 70>>

----------------------------------------------------------------------------
\* the text, blanks and a leading '+' aside, is the decimal numeral of n
C21_IsInteger(text, n) ==
    LET t == Strip(text)
        u == IF t # <<>> /\ t[1] = "+" THEN Tail(t) ELSE t
    IN  /\ u # <<>>
        /\ \A k \in 1..Len(u) : u[k] \in Digits
        /\ ParseNat(u) = n

\* the text is an integer numeral at all (a sign allowed)
C21_Numeral(text) ==
    LET t == Strip(text)
        u == IF t # <<>> /\ t[1] \in {"+", "-"} THEN Tail(t) ELSE t
    IN  u # <<>> /\ \A k \in 1..Len(u) : u[k] \in Digits

C21_KeyNames == {KEY_SIGNATURES[k].key : k \in 1..Len(KEY_SIGNATURES)}

(* C21: the menu of create_chords.py defaults instead of failing.  For     *)
(* every text entered at the mode prompt exactly one generation function   *)
(* is called, and it is not left by an exception; an entry that is not the *)
(* integer 2 or 3 calls generate_chord_triads_range('C3', 'C5'); in mode 2 *)
(* an empty or unknown key name becomes 'C Major' and an octave count that *)
(* is not an integer becomes 2.                                            *)
C21_MenuDefaults ==
    (stack # <<>> /\ stack[1].cmd.fn = "create_chords_main") =>
        LET entered == stack[1].cmd
            called == IF Len(stack) = 1 THEN cmd ELSE stack[2].cmd
            key == Strip(entered.key_text)
        IN  /\ Len(stack) = 1 => pc \notin {"raised", "caught"}
            /\ exc = "none"
            /\ IF C21_IsInteger(entered.mode_text, 2)
               THEN /\ called.fn = "generate_key_chords"
                    /\ called.key_signature = IF key \in C21_KeyNames THEN key
                                              ELSE <<"C", " ", "M", "a", "j", "o", "r">>
                    /\ ~C21_Numeral(entered.octaves_text) => called.octaves = 2
                    /\ C21_Numeral(entered.octaves_text)
                           => FormatInt(called.octaves) = Strip(entered.octaves_text)
               ELSE IF C21_IsInteger(entered.mode_text, 3)
               THEN called.fn = "generate_all_key_chords"
               ELSE /\ called.fn = "generate_chord_triads_range"
                    /\ called.range = << <<"C", "3">>, <<"C", "5">> >>

\* C21 witness: ' 2 ' at the mode prompt, 'H Major' at the key prompt and
\* 'x' at the octaves prompt have produced the 14 files of C Major in two
\* octaves
C21_Witness ==
    /\ stack # <<>>
    /\ stack[1].cmd.fn = "create_chords_main"
    /\ stack[1].cmd.mode_text = <<" ", "2", " ">>
    /\ stack[1].cmd.key_text = <<"H", " ", "M", "a", "j", "o", "r">>
    /\ stack[1].cmd.octaves_text = <<"x">>
    /\ run = 1
    /\ pc = "done"
    /\ cmd.fn = "generate_key_chords"
    /\ cmd.key_signature = <<"C", " ", "M", "a", "j", "o", "r">>
    /\ Cardinality(files) = 14
    /\ \A f \in files : f.dir = KeyDir(<<"C", " ", "M", "a", "j", "o", "r">>)

----------------------------------------------------------------------------
\* the semitone offsets of third and fifth for type number 0..3
C22_Offsets == << <<0, 4, 7>>, <<0, 3, 7>>, <<0, 3, 6>>, <<0, 4, 8>> >>

(* C22: generate_chord_triads_range('C3', 'C5'), when no save fails, ends  *)
(* with exactly 100 files numbered 001 to 100, root first and then triad   *)
(* type: the chord of root r in 60..84 and type number t (Major 0, Minor   *)
(* 1, Diminished 2, Augmented 3) is file 4*(r-60)+t+1, and no chord of the *)
(* hundred is skipped.                                                     *)
C22_HundredChords ==
    (/\ cmd.fn = "generate_chord_triads_range"
     /\ cmd.range = << <<"C", "3">>, <<"C", "5">> >>
     /\ save_error_at = 0
     /\ pc = "done") =>
        /\ Cardinality(files) = 100
        /\ created_count = 100
        /\ \A k \in 1..Len(out) : out[k].kind # "Skipping"
        /\ \A f \in files :
               /\ f.dir = RangeDir(<<"C", "3">>, <<"C", "5">>)
               /\ DigitRun(f.name, 1) = 3
        /\ \A r \in 60..84, t \in 0..3 :
               \E f \in files :
                   /\ FileIndex(f) = 4 * (r - 60) + t + 1
                   /\ NotesOfType(f.track, "note_on")
                          = [j \in 1..3 |-> r + C22_Offsets[t + 1][j]]
                   /\ SubSeq(f.track[1].name, Len(f.track[1].name) - Len(triad_types[t + 1]) + 1,
                             Len(f.track[1].name)) = triad_types[t + 1]

\* C22 witness: the run has ended and file 100 is C5 Augmented, with root
\* 84, third 88 and fifth 92
C22_Witness ==
    /\ cmd.fn = "generate_chord_triads_range"
    /\ cmd.range = << <<"C", "3">>, <<"C", "5">> >>
    /\ save_error_at = 0
    /\ run = 1
    /\ pc = "done"
    /\ \E f \in files :
           /\ f.name = <<"1", "0", "0", " ", "C", "5", " ", "A", "u", "g", "m", "e", "n", "t", "e", "d",
                         ".", "m", "i", "d">>
           /\ NotesOfType(f.track, "note_on") = <<84, 88, 92>>

----------------------------------------------------------------------------
(* C23: generate_ableton_range('C0', 'C6') produces the files listed in    *)
(* the example table printed by show_example_output: '01 C0.mid' with MIDI *)
(* note 24 (standard pitch C1), '37 C3.mid' with MIDI note 48 (standard    *)
(* pitch C4) and '73 C6.mid' with MIDI note 96 (standard pitch C7).        *)
C23_ExampleTableHolds ==
    (/\ cmd.fn = "generate_ableton_range"
     /\ cmd.range = << <<"C", "0">>, <<"C", "6">> >>
     /\ cmd.include_track_names
     /\ save_error_at = 0
     /\ pc = "done") =>
        \A k \in 1..Len(ExampleTable) :
            \E f \in files :
                /\ f.name = ExampleTable[k].ableton_file
                /\ NotesOfType(f.track, "note_on") = <<ExampleTable[k].midi>>
                /\ NotesOfType(f.track, "note_off") = <<ExampleTable[k].midi>>
                /\ \E j \in 1..Len(out) :
                       /\ out[j].kind = "Created"
                       /\ out[j].subject = f.name
                       /\ out[j].shown = ExampleTable[k].standard_pitch

\* C23 witness: the run has ended; '01 C0.mid' holds 24 and '73 C6.mid'
\* holds 96 as the table says, and '37 C3.mid' holds 60, reported as
\* standard pitch C4
C23_Witness ==
    /\ cmd.fn = "generate_ableton_range"
    /\ cmd.range = << <<"C", "0">>, <<"C", "6">> >>
    /\ cmd.include_track_names
    /\ save_error_at = 0
    /\ pc = "done"
    /\ Cardinality(files) = 73
    /\ \E f \in files : f.name = <<"0", "1", " ", "C", "0", ".", "m", "i", "d">> /\ FirstNote(f) = 24
    /\ \E f \in files : f.name = <<"7", "3", " ", "C", "6", ".", "m", "i", "d">> /\ FirstNote(f) = 96
    /\ \E f \in files :
           /\ f.name = <<"3", "7", " ", "C", "3", ".", "m", "i", "d">>
           /\ FirstNote(f) = 60
           /\ \E j \in 1..Len(out) :
                  out[j].subject = f.name /\ out[j].shown = <<"C", "4">>

----------------------------------------------------------------------------
\* the length of a track in ticks: the sum of the delta times of its events
RECURSIVE C24_TrackTicks(_)
C24_TrackTicks(track) ==
    IF track = <<>> THEN 0 ELSE track[1].time + C24_TrackTicks(Tail(track))

(* C24: each file written by subcraft_notes.py holds a single note of 8    *)
(* bars: exactly one note-on and one note-off for the entry's pitch, the   *)
(* note-off 3840 ticks after the note-on, the track 3840 ticks long.       *)
C24_SingleEightBarNote ==
    (cmd.fn = "script" /\ Scripts[cmd.script].script = "subcraft") =>
        \A f \in files :
            LET ons == SelectSeq(f.track, LAMBDA e : e.type = "note_on")
                offs == SelectSeq(f.track, LAMBDA e : e.type = "note_off")
            IN  /\ Len(ons) = 1
                /\ Len(offs) = 1
                /\ ons[1].note = offs[1].note
                /\ ons[1].time = 0
                /\ offs[1].time = 3840
                /\ C24_TrackTicks(f.track) = 3840

\* C24 witness: subcraft has written '01 Loop_1_C2.mid' on its own table;
\* the track switches note 48 on and off twice, 3840 ticks each time, and is
\* 7680 ticks long
C24_Witness ==
    /\ cmd.fn = "script"
    /\ Scripts[cmd.script].script = "subcraft"
    /\ cmd.notes_data = Table_subcraft
    /\ pc = "done"
    /\ \E f \in files :
           /\ FileIndex(f) = 1
           /\ NotesOfType(f.track, "note_on") = <<48, 48>>
           /\ NotesOfType(f.track, "note_off") = <<48, 48>>
           /\ \A k \in 1..Len(f.track) :
                  f.track[k].type = "note_off" => f.track[k].time = 3840
           /\ C24_TrackTicks(f.track) = 7680

----------------------------------------------------------------------------
\* the position of the decimal point of a printed number
C25_Point(s) == CHOOSE k \in 1..Len(s) : s[k] = "."

RECURSIVE C25_Pow10(_)
C25_Pow10(n) == IF n = 0 THEN 1 ELSE 10 * C25_Pow10(n - 1)

\* the printed decimal number s is exactly ticks / per_bar
C25_Reports(s, ticks, per_bar) ==
    LET p == C25_Point(s)
        digits == SubSeq(s, 1, p - 1) \o SubSeq(s, p + 1, Len(s))
    IN  ParseNat(digits) * per_bar = ticks * C25_Pow10(Len(s) - p)

\* the duration line printed by the single-file call that has just returned
C25_Printed == out[Len(out)].bars

(* C25: the bar count printed for a duration of D ticks is D/480 in        *)
(* create_notes.py as in create_chords.py: create_note_midi_ableton_final, *)
(* create_note_midi_standard and create_chord_triad_midi all report 3840   *)
(* ticks as 8 bars and 1920 ticks as 4 bars.                               *)
C25_BarsAre480Ticks ==
    (cmd.fn \in C13_Fns /\ pc = "done") =>
        /\ C25_Reports(C25_Printed, cmd.duration_ticks, 480)
        /\ cmd.duration_ticks = 3840 => C25_Printed = <<"8", ".", "0">>
        /\ cmd.duration_ticks = 1920 => C25_Printed = <<"4", ".", "0">>

\* C25 witness: create_note_midi_ableton_final('C3', 1) with the default
\* duration of 3840 ticks has written its file and printed '2.0' bars,
\* which is 3840 / 1920
C25_Witness ==
    /\ cmd.fn = "create_note_midi_ableton_final"
    /\ cmd.name = <<"C", "3">>
    /\ cmd.file_number = 1
    /\ cmd.duration_ticks = 3840
    /\ pc = "done"
    /\ C25_Printed = <<"2", ".", "0">>
    /\ C25_Reports(C25_Printed, 3840, 1920)

----------------------------------------------------------------------------
\* the MIDI number the regex of create_notes.py gives a name
C26_Pitch(name) ==
    LET m == NoteMatch(name)
    IN  AbletonMidi(m.octave, NoteIndex(m.note_name))

\* a letter A-G, an optional '#' and a signed integer octave, with a pitch
\* in 0..127
C26_InGrammar(name) ==
    /\ C13_WholeName(name)
    /\ NoteIndex(NoteMatch(name).note_name) # -1
    /\ C26_Pitch(name) \in 0..127

(* C26: the two note-name parsers agree.  For every table entry whose name *)
(* is a letter A-G, an optional '#' and a signed integer octave (negative  *)
(* and multi-digit octaves included) with a pitch in 0..127, the slice     *)
(* parser of the table-driven scripts gives the same pitch class, octave   *)
(* and MIDI number as the regex parsers of drumlab_notes.py,               *)
(* spotlight_notes.py and create_notes.py, so every script gets the same   *)
(* numbers for such a table.                                               *)
C26_ParsersAgree ==
    (/\ cmd.fn = "script"
     /\ pc # "ready"
     /\ \A k \in 1..Len(cmd.notes_data) : C26_InGrammar(cmd.notes_data[k].file_note)) =>
        /\ pc # "raised"
        /\ \A k \in 1..Len(cmd.notes_data) :
               LET name == cmd.notes_data[k].file_note
                   m == NoteMatch(name)
               IN  /\ SliceParse(name) = RegexParse(name)
                   /\ RegexParse(name) = Parsed("none", NoteIndex(m.note_name), m.octave)
                   /\ \E j \in 1..Len(queue) :
                          /\ queue[j].display_name = name
                          /\ queue[j].midi = C26_Pitch(name)

\* C26 witness: beatmaker, which slices, given the one entry 'C-1' has ended
\* with the ValueError of note_names.index('C-'), where the regex parsers
\* read pitch class C, octave -1 and MIDI number 12
C26_Witness ==
    /\ cmd.fn = "script"
    /\ Scripts[cmd.script].script = "beatmaker"
    /\ Scripts[cmd.script].parser = "slice"
    /\ Len(cmd.notes_data) = 1
    /\ cmd.notes_data[1].file_note = <<"C", "-", "1">>
    /\ C26_InGrammar(<<"C", "-", "1">>)
    /\ pc = "raised"
    /\ exc = "ValueError: is not in list"
    /\ SliceParse(<<"C", "-", "1">>).exc = "ValueError: is not in list"
    /\ RegexParse(<<"C", "-", "1">>) = Parsed("none", 0, -1)
    /\ C26_Pitch(<<"C", "-", "1">>) = 12

----------------------------------------------------------------------------
C27_Fns ==
    {"generate_ableton_range", "generate_standard_range", "generate_middle_c_range",
     "generate_chord_triads_range", "generate_key_chords"}

\* the run is one of generate_all_key_chords
C27_AllKeys == cmd.fn = "generate_all_key_chords" \/ InAllKeys

(* C27: the working directory is restored on every exit path of the batch  *)
(* functions.  When one of the five has ended, by returning or by an       *)
(* exception raised while an entry is written (a failed save), the working *)
(* directory is the one at entry, here the starting directory; and in      *)
(* generate_all_key_chords every file lies in                              *)
(* midi_files_ableton_triads/key_<name> of the starting directory, also    *)
(* after an earlier key has failed.                                        *)
C27_DirectoryRestored ==
    /\ (cmd.fn \in C27_Fns /\ ~InAllKeys /\ pc \in {"done", "raised", "caught"})
           => cwd = <<>>
    /\ C27_AllKeys =>
           /\ (pc \in {"ready", "done", "raised"} \/ cmd.fn = "generate_all_key_chords")
                  => cwd = <<>>
           /\ \A f \in files :
                  \E k \in 1..Len(KEY_SIGNATURES) : f.dir = KeyDir(KEY_SIGNATURES[k].key)

\* C27 witness: generate_all_key_chords has ended after the first save of
\* the run, in A Major, raised OSError: the working directory is still
\* midi_files_ableton_triads/key_A_Major, and the files of A Minor lie in
\* midi_files_ableton_triads/key_A_Minor below it
C27_Witness ==
    /\ cmd.fn = "generate_all_key_chords"
    /\ stack = <<>>
    /\ save_error_at = 1
    /\ run = 1
    /\ pc = "done"
    /\ cwd = KeyDir(<<"A", " ", "M", "a", "j", "o", "r">>)
    /\ \E k \in 1..Len(out) : out[k].kind = "Failed" /\ out[k].subject = <<"A", " ", "M", "a", "j", "o", "r">>
    /\ \E f \in files : f.dir = KeyDir(<<"A", " ", "M", "a", "j", "o", "r">>) \o KeyDir(<<"A", " ", "M", "i", "n", "o", "r">>)
    /\ \A f \in files : f.dir # KeyDir(<<"A", " ", "M", "i", "n", "o", "r">>)

----------------------------------------------------------------------------
C28_Fns ==
    {"generate_ableton_range", "generate_standard_range", "generate_chord_triads_range"}

\* the indices of the files on disk
C28_Written == {FileIndex(f) : f \in files}

(* C28 as stated: in generate_ableton_range, generate_standard_range and   *)
(* generate_chord_triads_range the k files written carry exactly the       *)
(* indices 1..k and the lowest-pitched file has index 1, also when entries *)
(* of the range are skipped.                                               *)
C28_GapFreeIndices ==
    (cmd.fn \in C28_Fns /\ run = 1 /\ pc = "done") =>
        /\ C28_Written = 1..Cardinality(files)
        /\ \A f \in files :
               (\A g \in files : FirstNote(f) <= FirstNote(g)) => FileIndex(f) = 1

(* C28: in generate_ableton_range, generate_standard_range and             *)
(* generate_chord_triads_range an entry is numbered by its position in the *)
(* sorted enumeration of the range before it is validated, and a skipped   *)
(* entry keeps its number: the files written carry exactly the positions   *)
(* of the entries whose tones are in 0..127.  The indices are 1..k exactly *)
(* when no skipped entry precedes a written one; a range that starts below *)
(* MIDI 0 leaves its first file with an index above 1.                     *)
C28_IndicesArePositions ==
    (cmd.fn \in C28_Fns /\ run = 1 /\ pc = "done") =>
        LET valid == {k \in 1..Len(queue) : C11_Valid(queue[k])}
        IN  /\ \A k \in 1..Len(queue) : queue[k].file_number = k
            /\ C28_Written = valid
            /\ Cardinality(files) = Cardinality(valid)
            /\ \A f \in files : FirstNote(f) = queue[FileIndex(f)].midi
            /\ (C28_Written = 1..Cardinality(files))
                   <=> (\A k \in valid : \A j \in 1..(k - 1) : j \in valid)
            /\ (queue # <<>> /\ queue[1].midi < 0) => 1 \notin C28_Written

\* C28 witness: generate_ableton_range('C-3', 'C-2') has ended; its twelve
\* entries below MIDI 0 were skipped and the one file written, for C-2 with
\* MIDI number 0, is '13 C-2.mid'
C28_Witness ==
    /\ cmd.fn = "generate_ableton_range"
    /\ cmd.range = << <<"C", "-", "3">>, <<"C", "-", "2">> >>
    /\ run = 1
    /\ pc = "done"
    /\ Len(queue) = 13
    /\ Cardinality({k \in 1..Len(out) : out[k].kind = "Skipping"}) = 12
    /\ Cardinality(files) = 1
    /\ \E f \in files : f.name = <<"1", "3", " ", "C", "-", "2", ".", "m", "i", "d">> /\ FirstNote(f) = 0

----------------------------------------------------------------------------
\* the MIDI number of a range end under the octave offset of the function
C29_Midi(name) ==
    LET m == NoteMatch(name)
    IN  (m.octave + (IF cmd.fn = "generate_standard_range" THEN 1 ELSE 2)) * 12
            + NoteIndex(m.note_name)

\* how many queue entries a root has: four chords, or the note itself
C29_PerRoot == IF cmd.fn = "generate_chord_triads_range" THEN 4 ELSE 1

(* C29: the range enumeration of generate_ableton_range,                   *)
(* generate_standard_range and generate_chord_triads_range lists every     *)
(* semitone from the start note to the end note inclusive exactly once, in *)
(* ascending order: for a well-formed start s and end e it has             *)
(* max(0, midi(e) - midi(s) + 1) roots, and a reversed range has none and  *)
(* raises no error.                                                        *)
C29_EverySemitoneOnce ==
    (/\ cmd.fn \in C28_Fns
     /\ pc # "ready"
     /\ ParseRange(cmd.range[1], cmd.range[2]).exc = "none") =>
        LET s == C29_Midi(cmd.range[1])
            e == C29_Midi(cmd.range[2])
            n == IF e - s + 1 > 0 THEN e - s + 1 ELSE 0
        IN  /\ Len(queue) = C29_PerRoot * n
            /\ \A r \in 1..n :
                   \A t \in 1..C29_PerRoot :
                       queue[C29_PerRoot * (r - 1) + t].midi = s + r - 1
            /\ n = 0 => (pc \in {"loop", "done"} /\ exc = "none" /\ files = first_files)

\* C29 witness: generate_standard_range('F#3', 'C4') has ended with the
\* seven notes 54..60, one file each
C29_Witness ==
    /\ cmd.fn = "generate_standard_range"
    /\ cmd.range = << <<"F", "#", "3">>, <<"C", "4">> >>
    /\ run = 1
    /\ pc = "done"
    /\ Len(queue) = 7
    /\ {FirstNote(f) : f \in files} = 54..60
    /\ Cardinality(files) = 7

----------------------------------------------------------------------------
\* semitones of the seven scale degrees above the tonic, and their triads
C30_MajorSteps == <<0, 2, 4, 5, 7, 9, 11>>

C30_MinorSteps == <<0, 2, 3, 5, 7, 8, 10>>

C30_MajorTypes ==
    <<Str_Major, Str_Minor, Str_Minor, Str_Major, Str_Major, Str_Minor, Str_Diminished>>

C30_MinorTypes ==
    <<Str_Minor, Str_Diminished, Str_Major, Str_Minor, Str_Minor, Str_Major, Str_Major>>

\* pitch class 0..11 of a root name, a flat name read as its sharp equivalent
C30_PitchClass(root) ==
    (CHOOSE k \in 1..12 : NOTE_NAMES[k] = C20_Sharp(root)) - 1

\* the intervals of a triad type above its root
C30_Intervals(type) ==
    IF type = Str_Major THEN <<0, 4, 7>>
    ELSE IF type = Str_Minor THEN <<0, 3, 7>>
    ELSE <<0, 3, 6>>

(* C30: every entry of KEY_SIGNATURES is the diatonic triad set of its     *)
(* key: in a major key the seven chord roots lie 0, 2, 4, 5, 7, 9, 11      *)
(* semitones above the tonic (mod 12) with the types Major, Minor, Minor,  *)
(* Major, Major, Minor, Diminished, in a minor key 0, 2, 3, 5, 7, 8, 10    *)
(* with Minor, Diminished, Major, Minor, Minor, Major, Major, flat names   *)
(* read as their sharp equivalents; generate_key_chords queues and writes  *)
(* these chords, and there are 12 keys of each tonality.                   *)
C30_DiatonicTriads ==
    (cmd.fn = "generate_key_chords" /\ cmd.key_signature \in C19_KeyNames /\ pc # "ready") =>
        LET data == KEY_SIGNATURES[CHOOSE k \in 1..Len(KEY_SIGNATURES) :
                                       KEY_SIGNATURES[k].key = cmd.key_signature]
            tonic == C30_PitchClass(C20_Root(data.key))
            major == C20_Type(data.key) = Str_Major
            steps == IF major THEN C30_MajorSteps ELSE C30_MinorSteps
            types == IF major THEN C30_MajorTypes ELSE C30_MinorTypes
            degree(a) == ((a - 1) % 7) + 1
        IN  /\ C20_Type(data.key) \in {Str_Major, Str_Minor}
            /\ data.tonality = (IF major THEN "major" ELSE "minor")
            /\ Cardinality({k \in 1..Len(KEY_SIGNATURES) :
                                KEY_SIGNATURES[k].tonality = data.tonality}) = 12
            /\ {C30_PitchClass(C20_Root(KEY_SIGNATURES[k].key)) :
                    k \in {j \in 1..Len(KEY_SIGNATURES) :
                              KEY_SIGNATURES[j].tonality = data.tonality}} = 0..11
            /\ Len(data.chords) = 7
            /\ \A j \in 1..7 :
                   /\ C30_PitchClass(C20_Root(data.chords[j])) = (tonic + steps[j]) % 12
                   /\ C20_Type(data.chords[j]) = types[j]
            /\ Len(queue) = (IF cmd.octaves > 0 THEN 7 * cmd.octaves ELSE 0)
            /\ \A a \in 1..Len(queue) :
                   /\ queue[a].midi % 12 = (tonic + steps[degree(a)]) % 12
                   /\ queue[a].label = types[degree(a)]
            /\ \A f \in KeyFiles :
                   LET a == FileIndex(f)
                       root == FirstNote(f)
                       iv == C30_Intervals(types[degree(a)])
                   IN  /\ root % 12 = (tonic + steps[degree(a)]) % 12
                       /\ NotesOfType(f.track, "note_on")
                              = <<root + iv[1], root + iv[2], root + iv[3]>>

\* C30 witness: generate_key_chords('A Minor', 1) has written its seven
\* triads; the second, B Diminished, is B3 with the notes 71, 74, 77
C30_Witness ==
    /\ cmd.fn = "generate_key_chords"
    /\ cmd.key_signature = <<"A", " ", "M", "i", "n", "o", "r">>
    /\ cmd.octaves = 1
    /\ ~InAllKeys
    /\ pc = "done"
    /\ Cardinality(KeyFiles) = 7
    /\ \E f \in KeyFiles :
           /\ FileIndex(f) = 2
           /\ NotesOfType(f.track, "note_on") = <<71, 74, 77>>

====
